---- MODULE Spec2Model ----
(***************************************************************************)
(* The notebooks of inference-optimization-sagemaker as state machines.    *)
(*                                                                         *)
(* Spec      the asynchronous-inference notebook: the cells in order, the  *)
(*           get_output polling loop, and the endpoint's request queue.    *)
(* SpecLive  the same, with the fairness of a running kernel and service.  *)
(* SpecBatch the batch-transform notebook: the JSON Lines writer, the      *)
(*           uploads, the transform job and the download of its result.    *)
(* SpecScript    the handlers of sklearn_abalone_featurizer.py on one      *)
(*               request: input_fn, predict_fn, output_fn.                 *)
(* SpecPipeline  the inference-pipeline notebook: both fits, the batch     *)
(*               transform between them, the two-container endpoint.       *)
(* SpecFeatures  the feature store notebook: feature metadata updates and  *)
(*               search_features_using_string.                             *)
(*                                                                         *)
(* Strings that the code takes apart are sequences of their "/"-separated  *)
(* segments: "s3://b/p/f" is <<"s3:", "", "b", "p", "f">>.                 *)
(***************************************************************************)
EXTENDS Integers, Sequences, FiniteSets, TLC

\* for i in range(25)
NumRequests == 25
\* The reads and sleeps of one get_output call are counted up to MaxPolls;
\* the loop itself goes on beyond it.
MaxPolls == 2
\* The datasets of the batch-transform notebook hold up to MaxTweets tweets.
MaxTweets == 2
\* The payloads handled by the inference script hold up to MaxRows rows.
MaxRows == 2

VARIABLES
    pc,                     \* the statement the notebook is at
    raised,                 \* the exception that ended the run, or NoExc
    local,                  \* the local files (paths)
    s3,                     \* object storage: <<bucket>> \o key -> content
    model_predictor,        \* sagemaker.model.Model, or None
    async_config,           \* AsyncInferenceConfig, or None
    endpoint,               \* the hosted endpoint: [name, status, ...], or None
    targets,                \* Application Auto Scaling: the scalable targets
    policies,               \* Application Auto Scaling: the scaling policies
    queue,                  \* the requests the endpoint has accepted, in order
    served,                 \* how many of them the endpoint has processed
    failed,                 \* the ids of those it processed without an output
    input_file,             \* notebook globals of the invocation cells
    input_1_s3_location,
    input_file_s3_location,
    output_location,
    output,
    inferences,
    i,
    j,
    gpc,                    \* get_output: "idle", "try", "sleep" or "raised"
    bucket,                 \* get_output's locals
    key,
    e,                      \* the exception of the last failed read
    reads,                  \* reads and sleeps of the current get_output call
    sleeps,
    uploads,                \* history: what upload_file returned, in order
    tweet_text,             \* batch transform: the list of tweets
    data_json,
    files,                  \* the local files written: name -> content
    s3_file_uri,
    model_uri,
    job,                    \* the transform job, or NoObject
    batch_transform_result,
    input_data,             \* inference script: the request's payload
    content_type,           \*   its content type
    accept,                 \*   the accept value asked for
    model,                  \*   what model_fn loaded: the fitted preprocessor
    df,                     \*   what input_fn returned
    prediction,             \*   what predict_fn returned
    response,               \*   what output_fn returned
    abalone,                \* inference pipeline: the downloaded dataset (rows)
    train_input,
    sklearn_preprocessor,   \*   the SKLearn estimator, or NoObject
    transformer,            \*   its transformer and transform job, or NoObject
    preprocessed_train,
    ll_estimator,           \*   the Linear Learner estimator, or NoObject
    sm_model,               \*   the PipelineModel, or NoObject
    hosted,                 \*   the platform's models and endpoints: name -> record
    hops,                   \*   the container invocations of the request, in order
    result,                 \*   what predictor.predict returned
    calls,                  \*   history: the API calls made, in order
    catalog,                \* feature store: <<group, feature>> -> metadata
    customers_feature_group_name,
    described,              \*   what the last describe_feature_metadata returned
    search_string,
    search_df               \*   what search_features_using_string returned

cloud    == <<s3, endpoint, targets, policies, queue, served, failed>>
autoscal == <<targets, policies>>
service  == <<queue, served, failed>>
objects  == <<model_predictor, async_config>>
globals  == <<input_file, input_1_s3_location, input_file_s3_location, output_location, output, inferences, i, j>>
getout   == <<gpc, bucket, key, e, reads, sleeps>>
async    == <<local, model_predictor, async_config, endpoint, targets, policies,
              queue, served, failed, input_file, input_1_s3_location,
              input_file_s3_location, output_location, output, inferences, i, j,
              gpc, bucket, key, e, reads, sleeps, uploads>>
batch    == <<tweet_text, data_json, files, s3_file_uri, model_uri, job,
              batch_transform_result>>
script   == <<input_data, content_type, accept, model, df, prediction, response>>
pipeline == <<abalone, train_input, sklearn_preprocessor, transformer,
              preprocessed_train, ll_estimator, sm_model, hosted, hops, result, calls>>
lab3     == <<script, pipeline>>
fstore   == <<catalog, customers_feature_group_name, described, search_string, search_df>>
vars     == <<pc, raised, local, s3, model_predictor, async_config, endpoint,
              targets, policies, queue, served, failed, input_file,
              input_1_s3_location, input_file_s3_location, output_location, output, inferences, i, j,
              gpc, bucket, key, e, reads, sleeps, uploads, tweet_text, data_json,
              files, s3_file_uri, model_uri, job, batch_transform_result, lab3, fstore>>

----------------------------------------------------------------------------
(* Values *)

\* Python's None, where a string or a list is expected, and where an object is.
None  == <<"None">>
NoObject == [none |-> TRUE]
NoExc == [cls |-> "", code |-> ""]

ClientError(code) == [cls |-> "ClientError", code |-> code]
OtherError(name)  == [cls |-> name, code |-> ""]

\* What a read of object storage can fail with besides a missing key: a
\* ClientError with another code, or an exception that is no ClientError.
ReadFaults == {ClientError("AccessDenied"), OtherError("EndpointConnectionError")}

s3_bucket     == "sagemaker-default-bucket"
bucket_prefix == "DEMO-async-inference"
endpoint_name == "AsyncInferenceDemo-Endpoint"
model_name    == "AsyncInferenceDemo-Model"

\* f"s3://{bucket}/{key}"
S3Uri(b, k) == <<"s3:", "", b>> \o k

\* urllib.parse.urlparse(uri).netloc and .path ("/a/b" is <<"", "a", "b">>)
netloc(uri)  == uri[3]
urlpath(uri) == <<"">> \o SubSeq(uri, 4, Len(uri))

\* os.path.basename
basename(path) == path[Len(path)]

\* The content of a local file, and of the prediction made from a payload.
FileContent(path) == <<"file">> \o path
Prediction(payload) == <<"prediction">> \o payload

Put(store, b, k, content) == (<<b>> \o k) :> content @@ store
Has(store, b, k) == (<<b>> \o k) \in DOMAIN store
Get(store, b, k) == store[<<b>> \o k]

Sat(n) == IF n < MaxPolls THEN n + 1 ELSE n

ModelFile == <<"model", "demo-xgboost-model.tar.gz">>
\* f"input/test_point_{i}.libsvm"
InputFile(n) == <<"input", "test_point_" \o ToString(n) \o ".libsvm">>

model_s3_key == <<bucket_prefix, "demo-xgboost-model.tar.gz">>
model_url    == S3Uri(s3_bucket, model_s3_key)

\* "endpoint/" + endpoint_name + "/variant/" + "AllTraffic"
resource_id == <<"endpoint", endpoint_name, "variant", "AllTraffic">>
ScalableDimension == "sagemaker:variant:DesiredInstanceCount"

----------------------------------------------------------------------------
(* The state before the first cell runs *)

FreshNotebooks ==
    /\ raised = NoExc
    /\ local = {}
    /\ s3 = <<>>
    /\ model_predictor = NoObject
    /\ async_config = NoObject
    /\ endpoint = NoObject
    /\ targets = {}
    /\ policies = {}
    /\ queue = <<>>
    /\ served = 0
    /\ failed = {}
    /\ input_file = None
    /\ input_1_s3_location = None
    /\ input_file_s3_location = None
    /\ output_location = None
    /\ output = None
    /\ inferences = <<>>
    /\ i = 0
    /\ j = 0
    /\ gpc = "idle"
    /\ bucket = ""
    /\ key = <<>>
    /\ e = NoExc
    /\ reads = 0
    /\ sleeps = 0
    /\ uploads = <<>>
    /\ tweet_text = <<>>
    /\ data_json = <<>>
    /\ files = <<>>
    /\ s3_file_uri = None
    /\ model_uri = None
    /\ job = NoObject
    /\ batch_transform_result = <<>>

\* No request is being handled by the inference script.
NoRequest ==
    /\ input_data = <<>>
    /\ content_type = ""
    /\ accept = ""
    /\ model = NoObject
    /\ df = NoObject
    /\ prediction = <<>>
    /\ response = NoObject

\* The inference-pipeline notebook has created nothing.
NoPipeline ==
    /\ abalone = <<>>
    /\ train_input = None
    /\ sklearn_preprocessor = NoObject
    /\ transformer = NoObject
    /\ preprocessed_train = None
    /\ ll_estimator = NoObject
    /\ sm_model = NoObject
    /\ hosted = <<>>
    /\ hops = <<>>
    /\ result = NoObject
    /\ calls = <<>>

\* The feature-store notebook has called nothing.
NoFeatures ==
    /\ catalog = <<>>
    /\ customers_feature_group_name = ""
    /\ described = <<>>
    /\ search_string = <<>>
    /\ search_df = NoObject

Fresh == FreshNotebooks /\ NoRequest /\ NoPipeline /\ NoFeatures

\* The asynchronous-inference notebook starts at its first cell.
Init == pc = "Download" /\ Fresh

\* An uncaught exception ends the run of the notebook.
Abort(exc) ==
    /\ pc' = "Aborted"
    /\ raised' = exc

----------------------------------------------------------------------------
(* Section 1 - Setup *)

\* !aws s3 cp --recursive .../input-files/ input/ ; !aws s3 cp ...model.tar.gz model/
Download ==
    /\ pc = "Download"
    /\ local' = {InputFile(n) : n \in 0..(NumRequests - 1)} \cup {ModelFile}
    /\ pc' = "UploadModel"
    /\ UNCHANGED <<raised, cloud, objects, globals, getout, uploads, batch, lab3, fstore>>

\* Bucket(s3_bucket).Object(model_s3_key).upload_fileobj(model_file)
UploadModel ==
    /\ pc = "UploadModel"
    /\ s3' = Put(s3, s3_bucket, model_s3_key, FileContent(ModelFile))
    /\ pc' = "CreateModel"
    /\ UNCHANGED <<raised, local, endpoint, autoscal, service, objects, globals,
                   getout, uploads, batch, lab3, fstore>>

\* model_predictor = Model(name=..., image_uri=..., model_data=model_url, ...)
CreateModel ==
    /\ pc = "CreateModel"
    /\ model_predictor' = [name |-> model_name, model_data |-> model_url]
    /\ pc' = "CreateAsyncConfig"
    /\ UNCHANGED <<raised, local, cloud, async_config, globals, getout, uploads, batch, lab3, fstore>>

\* async_config = AsyncInferenceConfig(output_path=f"s3://{s3_bucket}/{bucket_prefix}/output", ...)
CreateAsyncConfig ==
    /\ pc = "CreateAsyncConfig"
    /\ async_config' = [output_path |-> S3Uri(s3_bucket, <<bucket_prefix, "output">>),
                        max_concurrent_invocations_per_instance |-> 4]
    /\ pc' = "Deploy"
    /\ UNCHANGED <<raised, local, cloud, model_predictor, globals, getout, uploads, batch, lab3, fstore>>

\* async_predictor = model_predictor.deploy(async_inference_config=async_config, ...)
\* deploy returns when the endpoint is in service; it fails when the model
\* data is not in object storage.
Deploy ==
    /\ pc = "Deploy"
    /\ IF /\ model_predictor # NoObject
          /\ async_config # NoObject
          /\ Has(s3, netloc(model_predictor.model_data),
                 Tail(urlpath(model_predictor.model_data)))
       THEN /\ endpoint' = [name |-> endpoint_name,
                            status |-> "InService",
                            model |-> model_predictor.name,
                            output_path |-> async_config.output_path]
            /\ pc' = "Register"
            /\ UNCHANGED raised
       ELSE /\ Abort(OtherError("UnexpectedStatusException"))
            /\ UNCHANGED endpoint
    /\ UNCHANGED <<local, s3, autoscal, service, objects, globals, getout, uploads, batch, lab3, fstore>>

\* The arguments of the three Application Auto Scaling calls.
RegisterArgs ==
    [ResourceId |-> resource_id, ScalableDimension |-> ScalableDimension,
     MinCapacity |-> 0, MaxCapacity |-> 5]
PolicyArgs ==
    [PolicyName |-> "Invocations-ScalingPolicy", ResourceId |-> resource_id,
     ScalableDimension |-> ScalableDimension]
\* Mutant: the endpoint's name is given as the resource id.
DeregisterArgs_EndpointName ==
    [ResourceId |-> <<endpoint_name>>, ScalableDimension |-> ScalableDimension]

DeregisterArgs ==
    [ResourceId |-> resource_id, ScalableDimension |-> ScalableDimension]

\* Application Auto Scaling accepts "endpoint/<name>/variant/<variant>" of an
\* endpoint that exists.
IsVariantOf(rid, ep) ==
    /\ ep # NoObject
    /\ ep.status = "InService"
    /\ rid = <<"endpoint", ep.name, "variant", "AllTraffic">>

\* response = client.register_scalable_target(ServiceNamespace="sagemaker", ...)
RegisterScalableTarget ==
    /\ pc = "Register"
    /\ IF IsVariantOf(RegisterArgs.ResourceId, endpoint)
       THEN /\ targets' = targets \cup {RegisterArgs}
            /\ pc' = "PutPolicy"
            /\ UNCHANGED raised
       ELSE /\ Abort(ClientError("ValidationException"))
            /\ UNCHANGED targets
    /\ UNCHANGED <<local, s3, endpoint, policies, service, objects, globals,
                   getout, uploads, batch, lab3, fstore>>

Registered(rid, dim) ==
    \E t \in targets : t.ResourceId = rid /\ t.ScalableDimension = dim

\* response = client.put_scaling_policy(PolicyName="Invocations-ScalingPolicy", ...)
\* The service refuses a policy for a target that is not registered.
PutScalingPolicy ==
    /\ pc = "PutPolicy"
    /\ IF Registered(PolicyArgs.ResourceId, PolicyArgs.ScalableDimension)
       THEN /\ policies' = policies \cup {PolicyArgs}
            /\ pc' = "Upload1"
            /\ UNCHANGED raised
       ELSE /\ Abort(ClientError("ObjectNotFoundException"))
            /\ UNCHANGED policies
    /\ UNCHANGED <<local, s3, endpoint, targets, service, objects, globals, getout,
                   uploads, batch, lab3, fstore>>

----------------------------------------------------------------------------
(* Section 2 - Using the Endpoint *)

\* sm_session.upload_data(path, bucket=..., key_prefix=prefix): the object
\* is stored under <key_prefix>/<file name>, and its S3 URI is returned.
UploadKey(path) == <<bucket_prefix, "input", basename(path)>>
upload_file(path) == S3Uri(s3_bucket, UploadKey(path))

\* InvokeEndpointAsync: the request is queued, and the response names the
\* object the result will be written to, <output_path>/<inference id>.out.
OutputPathOf(id) == endpoint.output_path \o <<ToString(id) \o ".out">>
Request(id, input) == [id |-> id, InputLocation |-> input, OutputLocation |-> OutputPathOf(id)]

CanInvoke == endpoint # NoObject /\ endpoint.status = "InService"

\* input_1_location = "input/test_point_0.libsvm"
\* input_1_s3_location = upload_file(input_1_location)
Upload1 ==
    /\ pc = "Upload1"
    /\ IF InputFile(0) \in local
       THEN /\ s3' = Put(s3, s3_bucket, UploadKey(InputFile(0)), FileContent(InputFile(0)))
            /\ input_1_s3_location' = upload_file(InputFile(0))
            /\ uploads' = Append(uploads, upload_file(InputFile(0)))
            /\ pc' = "Predict1"
            /\ UNCHANGED raised
       ELSE /\ Abort(OtherError("FileNotFoundError"))
            /\ UNCHANGED <<s3, input_1_s3_location, uploads>>
    /\ UNCHANGED <<local, endpoint, autoscal, service, objects, input_file,
                   input_file_s3_location, output_location, output, inferences, i, j,
                   getout, batch, lab3, fstore>>

\* async_response = async_predictor.predict_async(input_path=input_1_s3_location)
\* output_location = async_response.output_path
Predict1 ==
    /\ pc = "Predict1"
    /\ IF CanInvoke
       THEN /\ queue' = Append(queue, Request(Len(queue) + 1, input_1_s3_location))
            /\ output_location' = OutputPathOf(Len(queue) + 1)
            /\ pc' = "GetOutput1"
            /\ UNCHANGED raised
       ELSE /\ Abort(ClientError("ValidationError"))
            /\ UNCHANGED <<queue, output_location>>
    /\ UNCHANGED <<local, s3, endpoint, autoscal, served, failed, objects, input_file,
                   input_1_s3_location, input_file_s3_location, output, inferences,
                   i, j, getout, uploads, batch, lab3, fstore>>

----------------------------------------------------------------------------
(* get_output(output_location) *)

\* sm_session.read_s3_file(bucket=b, key_prefix=k): the content of the
\* object, or the ClientError NoSuchKey when there is none. fault is what
\* else the read can fail with (NoExc: nothing).
ReadRaises(b, k, fault) ==
    IF fault # NoExc THEN fault
    ELSE IF ~Has(s3, b, k) THEN ClientError("NoSuchKey")
    ELSE NoExc

\* Mutant: every ClientError is retried.
Retryable_AnyClientError(exc) == exc.cls = "ClientError"

\* except ClientError as e: if e.response["Error"]["Code"] == "NoSuchKey": ... continue
Retryable(exc) == exc.cls = "ClientError" /\ exc.code = "NoSuchKey"

\* Mutant: the path is used as the key with its leading "/".
GetOutputEnter_KeepSlash(loc) ==
    /\ gpc' = "try"
    /\ bucket' = netloc(loc)
    /\ key' = urlpath(loc)
    /\ e' = NoExc
    /\ reads' = 0
    /\ sleeps' = 0

\* output_url = urllib.parse.urlparse(output_location)
\* bucket = output_url.netloc ; key = output_url.path[1:]
GetOutputEnter(loc) ==
    /\ gpc' = "try"
    /\ bucket' = netloc(loc)
    /\ key' = Tail(urlpath(loc))
    /\ e' = NoExc
    /\ reads' = 0
    /\ sleeps' = 0

\* Where the notebook goes on when get_output returns.
AfterGetOutput ==
    IF pc = "GetOutput1" THEN
        /\ pc' = "SubmitLoop"
        /\ UNCHANGED j
    ELSE
        /\ j' = j + 1
        /\ pc' = IF j + 1 < Len(inferences) THEN "PollLoop" ELSE "Deregister"

\* output = get_output(output_location): the call
GetOutput1 ==
    /\ pc = "GetOutput1"
    /\ gpc = "idle"
    /\ GetOutputEnter(output_location)
    /\ UNCHANGED <<pc, raised, local, cloud, objects, globals, uploads, batch, lab3, fstore>>

\* try: return sm_session.read_s3_file(bucket=output_url.netloc, key_prefix=output_url.path[1:])
\* except ClientError as e: ... ; the value returned is assigned to output.
GetOutputTry ==
    /\ gpc = "try"
    /\ \E fault \in ReadFaults \cup {NoExc} :
        LET exc == ReadRaises(bucket, key, fault) IN
        /\ reads' = Sat(reads)
        /\ IF exc = NoExc THEN
                /\ output' = Get(s3, bucket, key)
                /\ gpc' = "idle"
                /\ AfterGetOutput
                /\ UNCHANGED <<raised, e>>
           ELSE IF Retryable(exc) THEN
                /\ e' = exc
                /\ gpc' = "sleep"
                /\ UNCHANGED <<pc, raised, output, j>>
           ELSE
                /\ e' = IF exc.cls = "ClientError" THEN exc ELSE e
                /\ gpc' = "raised"
                /\ Abort(exc)
                /\ UNCHANGED <<output, j>>
    /\ UNCHANGED <<local, cloud, objects, input_file, input_1_s3_location,
                   input_file_s3_location, output_location, inferences, i, bucket,
                   key, sleeps, uploads, batch, lab3, fstore>>

\* Mutant: the loop gives up after MaxPolls sleeps.
GetOutputSleep_Budget ==
    /\ gpc = "sleep"
    /\ sleeps' = Sat(sleeps)
    /\ IF sleeps < MaxPolls
       THEN gpc' = "try" /\ UNCHANGED <<pc, raised>>
       ELSE gpc' = "raised" /\ Abort(OtherError("TimeoutError"))
    /\ UNCHANGED <<local, cloud, objects, globals, bucket, key, e, reads, uploads, batch, lab3, fstore>>

\* print("waiting for output...") ; time.sleep(2) ; continue
GetOutputSleep ==
    /\ gpc = "sleep"
    /\ sleeps' = Sat(sleeps)
    /\ gpc' = "try"
    /\ UNCHANGED <<pc, raised, local, cloud, objects, globals, bucket, key, e, reads,
                   uploads, batch, lab3, fstore>>

----------------------------------------------------------------------------
(* 2.3 Multiple Invocations *)

\* for i in range(25): input_file = f"input/test_point_{i}.libsvm"
\*                     input_file_s3_location = upload_file(input_file)
LoopUpload ==
    /\ pc = "SubmitLoop"
    /\ i < NumRequests
    /\ input_file' = InputFile(i)
    /\ IF InputFile(i) \in local
       THEN /\ s3' = Put(s3, s3_bucket, UploadKey(InputFile(i)), FileContent(InputFile(i)))
            /\ input_file_s3_location' = upload_file(InputFile(i))
            /\ uploads' = Append(uploads, upload_file(InputFile(i)))
            /\ pc' = "LoopPredict"
            /\ UNCHANGED raised
       ELSE /\ Abort(OtherError("FileNotFoundError"))
            /\ UNCHANGED <<s3, input_file_s3_location, uploads>>
    /\ UNCHANGED <<local, endpoint, autoscal, service, objects, input_1_s3_location,
                   output_location, output, inferences, i, j, getout, batch, lab3, fstore>>

\* Mutant: every iteration submits the payload of the single invocation.
LoopInput_First == input_1_s3_location

\* predict_async(input_path=input_file_s3_location)
LoopInput == input_file_s3_location

\* Mutant: the list is assigned, not extended.
LoopAppend_Assign(pair) == <<pair>>

\* inferences += [(input_file, output_location)]
LoopAppend(pair) == inferences \o <<pair>>

\* Mutant: the polling loop is inside the submit loop.
LoopNext_PollEach == "PollLoop"

\* for i in range(25): the next iteration, or the statement after the loop
LoopNext == IF i + 1 < NumRequests THEN "SubmitLoop" ELSE "PollLoop"

\*     async_response = async_predictor.predict_async(input_path=input_file_s3_location)
\*     output_location = async_response.output_path
\*     inferences += [(input_file, output_location)] ; time.sleep(0.5)
LoopPredict ==
    /\ pc = "LoopPredict"
    /\ IF CanInvoke
       THEN /\ queue' = Append(queue, Request(Len(queue) + 1, LoopInput))
            /\ output_location' = OutputPathOf(Len(queue) + 1)
            /\ inferences' = LoopAppend(<<input_file, OutputPathOf(Len(queue) + 1)>>)
            /\ i' = i + 1
            /\ pc' = LoopNext
            /\ UNCHANGED raised
       ELSE /\ Abort(ClientError("ValidationError"))
            /\ UNCHANGED <<queue, output_location, inferences, i>>
    /\ UNCHANGED <<local, s3, endpoint, autoscal, served, failed, objects, input_file,
                   input_1_s3_location, input_file_s3_location, output, j, getout,
                   uploads, batch, lab3, fstore>>

\* for input_file, output_location in inferences: output = get_output(output_location)
PollNext ==
    /\ pc = "PollLoop"
    /\ gpc = "idle"
    /\ j < Len(inferences)
    /\ input_file' = inferences[j + 1][1]
    /\ output_location' = inferences[j + 1][2]
    /\ GetOutputEnter(inferences[j + 1][2])
    /\ UNCHANGED <<pc, raised, local, cloud, objects, input_1_s3_location,
                   input_file_s3_location, output, inferences, i, j, uploads, batch, lab3, fstore>>

----------------------------------------------------------------------------
(* Section 3 - Clean up *)

\* response = client.deregister_scalable_target(ServiceNamespace="sagemaker", ...)
\* Deregistering a scalable target deletes its scaling policies.
DeregisterScalableTarget ==
    /\ pc = "Deregister"
    /\ IF Registered(DeregisterArgs.ResourceId, DeregisterArgs.ScalableDimension)
       THEN /\ targets' = {t \in targets :
                               ~(/\ t.ResourceId = DeregisterArgs.ResourceId
                                 /\ t.ScalableDimension = DeregisterArgs.ScalableDimension)}
            /\ policies' = {p \in policies :
                               ~(/\ p.ResourceId = DeregisterArgs.ResourceId
                                 /\ p.ScalableDimension = DeregisterArgs.ScalableDimension)}
            /\ pc' = "DeleteEndpoint"
            /\ UNCHANGED raised
       ELSE /\ Abort(ClientError("ObjectNotFoundException"))
            /\ UNCHANGED <<targets, policies>>
    /\ UNCHANGED <<local, s3, endpoint, service, objects, globals, getout, uploads, batch, lab3, fstore>>

\* Mutant: the endpoint is deleted in the cell before.
DeleteEndpoint_First ==
    /\ pc = "Deregister"
    /\ endpoint' = [endpoint EXCEPT !.status = "Deleted"]
    /\ pc' = "Done"
    /\ UNCHANGED <<raised, local, s3, autoscal, service, objects, globals, getout,
                   uploads, batch, lab3, fstore>>

\* async_predictor.delete_endpoint()
DeleteEndpoint ==
    /\ pc = "DeleteEndpoint"
    /\ endpoint' = [endpoint EXCEPT !.status = "Deleted"]
    /\ pc' = "Done"
    /\ UNCHANGED <<raised, local, s3, autoscal, service, objects, globals, getout,
                   uploads, batch, lab3, fstore>>

----------------------------------------------------------------------------
(* The endpoint *)

\* The endpoint takes the requests of its queue in order. It reads the
\* payload at InputLocation and writes the prediction to OutputLocation; a
\* request whose inference fails gets no output object. The notebook polls
\* the outputs in the order of submission and does not get past one that is
\* missing, so what it can see of the endpoint is, per request, how long the
\* output takes to appear, and the first request that fails: the order of
\* completion, and what the endpoint does after the first failed request,
\* are not followed.
ServiceProcess ==
    /\ CanInvoke
    /\ served < Len(queue)
    /\ failed = {}
    /\ LET r  == queue[served + 1]
           ib == netloc(r.InputLocation)
           ik == Tail(urlpath(r.InputLocation))
           ob == netloc(r.OutputLocation)
           ok == Tail(urlpath(r.OutputLocation))
       IN  \E success \in BOOLEAN :
            /\ served' = served + 1
            /\ IF success /\ Has(s3, ib, ik)
               THEN /\ s3' = Put(s3, ob, ok, Prediction(Get(s3, ib, ik)))
                    /\ UNCHANGED failed
               ELSE /\ failed' = failed \cup {r.id}
                    /\ UNCHANGED s3
    /\ UNCHANGED <<pc, raised, local, endpoint, autoscal, queue, objects, globals,
                   getout, uploads, batch, lab3, fstore>>

----------------------------------------------------------------------------

Notebook ==
    \/ Download
    \/ UploadModel
    \/ CreateModel
    \/ CreateAsyncConfig
    \/ Deploy
    \/ RegisterScalableTarget
    \/ PutScalingPolicy
    \/ Upload1
    \/ Predict1
    \/ GetOutput1
    \/ GetOutputTry
    \/ GetOutputSleep
    \/ LoopUpload
    \/ LoopPredict
    \/ PollNext
    \/ DeregisterScalableTarget
    \/ DeleteEndpoint

Next == Notebook \/ ServiceProcess

Spec == Init /\ [][Next]_vars

\* A running kernel executes the next statement; nothing is assumed of the
\* endpoint.
SpecLive == Spec /\ WF_vars(Notebook)

----------------------------------------------------------------------------
(* Properties of get_output *)

NoSuchKey == ClientError("NoSuchKey")
Polling == gpc \in {"try", "sleep"}
\* The step is a read of the output object (every read leaves "try").
ReadStep == gpc = "try" /\ gpc' # "try"

\* C1: a read that fails with NoSuchKey is retried (the loop sleeps, then
\* reads again) and only such a read is; any other failure of the read
\* leaves get_output at once, as the exception that ends the run, with no
\* sleep and no read after it.
C1_RetryOnlyNoSuchKey ==
    /\ [][ReadStep =>
            \/ gpc' = "idle" /\ Has(s3, bucket, key) /\ raised' = NoExc
            \/ /\ gpc' = "sleep"
               /\ ~Has(s3, bucket, key)
               /\ e' = NoSuchKey
               /\ raised' = NoExc
               /\ pc' = pc
            \/ /\ gpc' = "raised"
               /\ raised' \in ReadFaults
               /\ pc' = "Aborted"
               /\ sleeps' = sleeps]_vars
    /\ [][gpc = "sleep" => gpc' \in {"sleep", "try"} /\ e' = NoSuchKey]_vars
    /\ [][gpc = "raised" => UNCHANGED <<gpc, reads, sleeps, pc, raised, output>>]_vars

\* A call that read NoSuchKey, slept, read again and then failed for good.
C1_Witness ==
    /\ gpc = "raised"
    /\ raised = ClientError("AccessDenied")
    /\ reads = 2
    /\ sleeps = 1

\* The object an S3 URI names: "s3://<bucket>/<key>" is stored at <bucket>, <key>.
ObjectKey(uri) == SubSeq(uri, 3, Len(uri))
ObjectExists(uri) == ObjectKey(uri) \in DOMAIN s3

\* C2: get_output(output_location) returns only when the object at
\* output_location exists, and what it returns (assigned to output) is the
\* content of that object; if the object of every call eventually appears
\* and no read fails with another error, every call returns.
C2_ReturnsTheObject ==
    /\ [][(Polling /\ gpc' = "idle") =>
            /\ ObjectExists(output_location)
            /\ output' = s3[ObjectKey(output_location)]]_vars
    /\ ([](Polling => <>ObjectExists(output_location)) /\ [](raised = NoExc))
            => [](Polling => <>(gpc = "idle"))

\* The last get_output of the notebook has returned the last request's
\* prediction, after waiting for it.
C2_Witness ==
    /\ pc = "Deregister"
    /\ gpc = "idle"
    /\ reads = 2
    /\ output = Prediction(FileContent(InputFile(NumRequests - 1)))
    /\ output = s3[ObjectKey(output_location)]

\* C3: there is no retry budget: however many reads have failed, a read
\* that finds no object (and fails with nothing else) is followed by a
\* sleep, and a sleep by the next read; get_output neither returns nor
\* raises. A call whose object never appears reads again and again.
C3_NoRetryBudget ==
    /\ [][(ReadStep /\ ~Has(s3, bucket, key) /\ raised' = NoExc) =>
            gpc' = "sleep" /\ pc' = pc]_vars
    /\ [][(gpc = "sleep" /\ gpc' # "sleep") =>
            gpc' = "try" /\ pc' = pc /\ raised' = NoExc]_vars
    /\ <>[](Polling /\ ~ObjectExists(output_location) /\ raised = NoExc)
            => ([]<>(gpc = "try") /\ []<>(gpc = "sleep") /\ [](pc # "Done"))

\* The poll of a request that failed: the counters are at their cap and
\* the loop is about to read again.
C3_Witness ==
    /\ gpc = "try"
    /\ reads = MaxPolls
    /\ sleeps = MaxPolls
    /\ failed # {}
    /\ \E r \in failed : output_location = queue[r].OutputLocation
    /\ Len(queue) = NumRequests + 1

----------------------------------------------------------------------------
(* Properties of the asynchronous-inference workflow *)

\* The file whose payload the r-th request of the notebook carries: the
\* single invocation first, then the 25 of the loop.
PayloadFile(r) == IF r = 1 THEN InputFile(0) ELSE InputFile(r - 2)

\* C4: when a request has been submitted, the model artifact is in object
\* storage and the model, the async config and the endpoint have been
\* created; the r-th request was given exactly the URI the r-th upload
\* returned, and the payload was in object storage by then; an output is
\* polled only if a submitted request produces it.
C4_WorkflowOrder ==
    /\ queue # <<>> =>
        /\ ObjectExists(model_url)
        /\ model_predictor # NoObject
        /\ async_config # NoObject
        /\ endpoint # NoObject
    /\ Len(queue) <= Len(uploads)
    /\ \A r \in 1..Len(queue) :
        /\ queue[r].InputLocation = uploads[r]
        /\ ObjectExists(uploads[r])
        /\ s3[ObjectKey(uploads[r])] = FileContent(PayloadFile(r))
    /\ Polling => \E r \in 1..Len(queue) :
                        queue[r].OutputLocation = S3Uri(bucket, key)

\* The output of the last request is being polled.
C4_Witness ==
    /\ Polling
    /\ Len(queue) = NumRequests + 1
    /\ queue[NumRequests + 1].OutputLocation = S3Uri(bucket, key)
    /\ queue[NumRequests + 1].InputLocation = upload_file(InputFile(NumRequests - 1))

\* C5: after k iterations of the submit loop, inferences holds k pairs, the
\* n-th being the n-th input file with the output path predict_async
\* returned for the request that carries that file; output_location is the
\* last of them; after the loop there are 25; and no pair is ever changed
\* or removed.
C5_InferencesPairs ==
    /\ [](/\ Len(inferences) = i
          /\ \A n \in 1..Len(inferences) :
                /\ inferences[n][1] = InputFile(n - 1)
                /\ inferences[n][2] = queue[n + 1].OutputLocation
                /\ queue[n + 1].InputLocation = upload_file(InputFile(n - 1))
          /\ (pc = "SubmitLoop" /\ i > 0) => output_location = inferences[i][2]
          /\ pc \in {"PollLoop", "Deregister", "DeleteEndpoint", "Done"}
                => Len(inferences) = 25)
    /\ [][/\ Len(inferences') >= Len(inferences)
          /\ \A n \in 1..Len(inferences) : inferences'[n] = inferences[n]]_vars

\* The loop is over and output_location has been overwritten by the polls.
C5_Witness ==
    /\ pc = "PollLoop"
    /\ j = 2
    /\ Len(inferences) = 25
    /\ output_location = inferences[2][2]
    /\ inferences[25] = <<InputFile(24), queue[26].OutputLocation>>

\* C6: the endpoint is deleted only when no scalable target of it is
\* registered any more.
C6_DeregisterBeforeDelete ==
    [][(/\ endpoint # NoObject
        /\ endpoint.status = "InService"
        /\ endpoint'.status = "Deleted")
       => \A t \in targets : t.ResourceId[2] # endpoint.name]_vars

\* The endpoint has been deleted, after its target had been registered and
\* deregistered.
C6_Witness ==
    /\ pc = "Done"
    /\ endpoint.status = "Deleted"
    /\ targets = {}
    /\ raised = NoExc

AutoscalingRefused ==
    {ClientError("ValidationException"), ClientError("ObjectNotFoundException")}

\* C7: the scalable target is registered when the endpoint is in service
\* and no policy exists yet; the target, the policy and the deregistration
\* name the same resource, endpoint/<endpoint_name>/variant/AllTraffic, and
\* the same dimension: none of the three calls is refused, the policy is
\* attached to the registered target, and the deregistration removes it.
C7_AutoscalingOrder ==
    /\ [](/\ \A t \in targets :
                /\ endpoint # NoObject
                /\ t.ResourceId = <<"endpoint", endpoint.name, "variant", "AllTraffic">>
          /\ \A p \in policies : \E t \in targets :
                /\ t.ResourceId = p.ResourceId
                /\ t.ScalableDimension = p.ScalableDimension
          /\ raised \notin AutoscalingRefused
          /\ pc \in {"Upload1", "Predict1", "GetOutput1", "SubmitLoop", "LoopPredict",
                     "PollLoop", "Deregister"}
                => targets # {} /\ policies # {}
          /\ pc \in {"DeleteEndpoint", "Done"} => targets = {} /\ policies = {})
    /\ [][targets' # targets /\ targets \subseteq targets'
            => CanInvoke /\ policies = {}]_vars

\* The target has been deregistered and took its policy with it.
C7_Witness ==
    /\ pc = "DeleteEndpoint"
    /\ targets = {}
    /\ policies = {}
    /\ endpoint.status = "InService"

\* C8: while a get_output poll is in progress the notebook is at that call
\* and issues no other call; the polling of the multiple-invocation cell
\* starts when all 25 requests have been submitted; a get_output call
\* starts only when no other is in progress.
C8_Sequential ==
    /\ [](/\ Polling => pc \in {"GetOutput1", "PollLoop"}
          /\ pc = "PollLoop" =>
                /\ i = 25
                /\ Len(inferences) = 25
                /\ Len(queue) = 26)
    /\ [][Polling => UNCHANGED <<queue, uploads, endpoint, targets, policies, local>>]_vars
    /\ [][<<bucket, key>>' # <<bucket, key>> => gpc = "idle" /\ gpc' = "try"]_vars

\* The second poll of the multiple-invocation cell is in progress.
C8_Witness ==
    /\ pc = "PollLoop"
    /\ j = 1
    /\ gpc = "sleep"
    /\ served = 26

----------------------------------------------------------------------------
(* Run a batch transform inference job *)

\* Texts are sequences of characters. The tweets the datasets are made of:
\* plain, with one mention, with two '@', with quotes, with a line break
\* inside, with a backslash and a non-ASCII letter, and a lone '@'.
Tweets ==
    { <<"o", "k">>,
      <<"@", "u", " ", "h", "i">>,
      <<"a", "@", "b", "@">>,
      <<"\"", "q", "\"">>,
      <<"l", "\n", "m">>,
      <<"\\", "@", "é">>,
      <<"@">> }

TweetLists == UNION {[1..n -> Tweets] : n \in 0..MaxTweets}

dataset_jsonl_file == "tweet_data.jsonl"

\* s3_path_join(a, b): the segments of a, then those of b
s3_path_join(a, b) == a \o b
input_s3_path  == s3_path_join(<<"s3:", "", s3_bucket>>, <<"batch_transform", "input">>)
output_s3_path == s3_path_join(<<"s3:", "", s3_bucket>>, <<"batch_transform", "output">>)
batch_model_url == s3_path_join(<<"s3:", "", s3_bucket>>, <<"batch_transform", "model">>)

\* str.replace(old, new), old a single character
RECURSIVE replace(_, _, _)
replace(str, old, new) ==
    IF str = <<>> THEN <<>>
    ELSE (IF Head(str) = old THEN new ELSE <<Head(str)>>) \o replace(Tail(str), old, new)

\* Mutant: only the first occurrence is replaced (count=1).
RECURSIVE replace_first(_, _, _)
replace_first(str, old, new) ==
    IF str = <<>> THEN <<>>
    ELSE IF Head(str) = old THEN new \o Tail(str)
    ELSE <<Head(str)>> \o replace_first(Tail(str), old, new)

CleanRow_First(row) == replace_first(row, "@", <<>>)

\* row = row.replace("@", "")
CleanRow(row) == replace(row, "@", <<>>)

\* json's encoding of one character of a string (ensure_ascii)
JsonEscape(c) ==
    CASE c = "\"" -> <<"\\", "\"">>
      [] c = "\\" -> <<"\\", "\\">>
      [] c = "\n" -> <<"\\", "n">>
      [] c = "é"  -> <<"\\", "u00e9">>
      [] OTHER    -> <<c>>

RECURSIVE JsonString(_)
JsonString(str) ==
    IF str = <<>> THEN <<>> ELSE JsonEscape(Head(str)) \o JsonString(Tail(str))

\* json.dump({'inputs': str(row)}, outfile): the text written
json_dump_inputs(row) == <<"{", "\"inputs\"", ": ", "\"">> \o JsonString(row) \o <<"\"", "}">>

\* for row in tweet_text: ... json.dump(...) ; outfile.write('\n')
RECURSIVE WriteRows(_)
WriteRows(rows) ==
    IF rows = <<>> THEN <<>>
    ELSE json_dump_inputs(CleanRow(Head(rows))) \o <<"\n">> \o WriteRows(Tail(rows))

\*                          ... data_json.append({'inputs': str(row)})
AppendRows(rows) == [n \in 1..Len(rows) |-> [inputs |-> CleanRow(rows[n])]]

\* The lines of a text that follows the beginning of a line, each without
\* its line break: a line ends at a line break or at the end of the text.
SplitLines(text, line) ==
    LET whole   == line \o text
        ends    == {n \in 1..Len(whole) : whole[n] = "\n"}
                    \cup (IF whole # <<>> /\ whole[Len(whole)] # "\n"
                          THEN {Len(whole) + 1} ELSE {})
        end(k)  == CHOOSE n \in ends : Cardinality({m \in ends : m < n}) = k - 1
        start(k) == IF k = 1 THEN 1 ELSE end(k - 1) + 1
    IN  [k \in 1..Cardinality(ends) |-> SubSeq(whole, start(k), end(k) - 1)]

\* S3Uploader.upload(local_path, desired_s3_uri): the URI of the object
S3Uploader_upload(name, uri) == uri \o <<name>>

\* The object a transform job writes for an input object: one line per
\* input line (split_type='Line', strategy='SingleRecord').
RECURSIVE PredictLines(_)
PredictLines(lines) ==
    IF lines = <<>> THEN <<>>
    ELSE <<"[", "{'label': 'POSITIVE', 'score': 0.9}", "]", "\n">> \o PredictLines(Tail(lines))

TransformOutput(content) == PredictLines(SplitLines(content, <<>>))

\* output_file = f"{dataset_jsonl_file}.out"
output_file == dataset_jsonl_file \o ".out"

\* Mutant: the result is looked for beside the input.
ResultUri_BesideInput == s3_path_join(input_s3_path, <<output_file>>)

\* output_path = s3_path_join(output_s3_path, output_file)
ResultUri == s3_path_join(output_s3_path, <<output_file>>)

\* line = "[" + line.replace("[","").replace("]",",") + "]" ; literal_eval(line):
\* the list of the line's objects.
ParseLine(line) == SelectSeq(line, LAMBDA c : c \notin {"[", "]", ",", "\n"})

\* The batch-transform notebook starts at its first cell.
InitBatch == pc = "LoadDataset" /\ Fresh

\* dataset = load_dataset("tweet_eval", "sentiment") ; tweet_text = dataset['validation'][:]['text']
LoadDataset ==
    /\ pc = "LoadDataset"
    /\ \E t \in TweetLists : tweet_text' = t
    /\ pc' = "Preprocess"
    /\ UNCHANGED <<raised, s3, async, lab3, fstore, data_json, files, s3_file_uri, model_uri, job,
                   batch_transform_result>>

\* data_json = [] ; with open(dataset_jsonl_file, "w+") as outfile: for row in tweet_text: ...
Preprocess ==
    /\ pc = "Preprocess"
    /\ files' = dataset_jsonl_file :> WriteRows(tweet_text) @@ files
    /\ data_json' = AppendRows(tweet_text)
    /\ pc' = "UploadInput"
    /\ UNCHANGED <<raised, s3, async, lab3, fstore, tweet_text, s3_file_uri, model_uri, job,
                   batch_transform_result>>

\* s3_file_uri = S3Uploader.upload(dataset_jsonl_file, input_s3_path)
UploadInput ==
    /\ pc = "UploadInput"
    /\ s3' = ObjectKey(S3Uploader_upload(dataset_jsonl_file, input_s3_path))
                :> files[dataset_jsonl_file] @@ s3
    /\ s3_file_uri' = S3Uploader_upload(dataset_jsonl_file, input_s3_path)
    /\ pc' = "DownloadPretrained"
    /\ UNCHANGED <<raised, async, lab3, fstore, tweet_text, data_json, files, model_uri, job,
                   batch_transform_result>>

\* model.save_pretrained('model_token') ; tokenizer.save_pretrained('model_token')
DownloadPretrained ==
    /\ pc = "DownloadPretrained"
    /\ files' = "model_token" :> <<"distilbert-base-uncased-finetuned-sst-2-english">> @@ files
    /\ pc' = "PackageModel"
    /\ UNCHANGED <<raised, s3, async, lab3, fstore, tweet_text, data_json, s3_file_uri, model_uri,
                   job, batch_transform_result>>

\* !cd model_token && tar zcvf model.tar.gz * ; !mv model_token/model.tar.gz ./model.tar.gz
PackageModel ==
    /\ pc = "PackageModel"
    /\ files' = "model.tar.gz" :> (<<"tar">> \o files["model_token"]) @@ files
    /\ pc' = "UploadModelTar"
    /\ UNCHANGED <<raised, s3, async, lab3, fstore, tweet_text, data_json, s3_file_uri, model_uri,
                   job, batch_transform_result>>

\* model_uri = S3Uploader.upload('model.tar.gz', model_url)
UploadModelTar ==
    /\ pc = "UploadModelTar"
    /\ s3' = ObjectKey(S3Uploader_upload("model.tar.gz", batch_model_url))
                :> files["model.tar.gz"] @@ s3
    /\ model_uri' = S3Uploader_upload("model.tar.gz", batch_model_url)
    /\ pc' = "Transform"
    /\ UNCHANGED <<raised, async, lab3, fstore, tweet_text, data_json, files, s3_file_uri, job,
                   batch_transform_result>>

\* The job the cell creates.
TransformJob ==
    [status |-> "InProgress",
     model_data |-> model_uri,
     output_path |-> output_s3_path,
     data |-> s3_file_uri,
     content_type |-> "application/json",
     split_type |-> "Line",
     strategy |-> "SingleRecord"]

\* huggingface_model = HuggingFaceModel(model_data=model_uri, ...)
\* batch_job = huggingface_model.transformer(..., output_path=output_s3_path, ...)
\* batch_job.transform(data=s3_file_uri, ...): the job is created; it is
\* refused when the model data or the input is not in object storage.
Transform ==
    /\ pc = "Transform"
    /\ IF /\ TransformJob.model_data # None
          /\ TransformJob.data # None
          /\ ObjectExists(TransformJob.model_data)
          /\ ObjectExists(TransformJob.data)
       THEN /\ job' = TransformJob
            /\ pc' = "TransformWait"
            /\ UNCHANGED raised
       ELSE /\ Abort(ClientError("ValidationException"))
            /\ UNCHANGED job
    /\ UNCHANGED <<s3, async, lab3, fstore, tweet_text, data_json, files, s3_file_uri, model_uri,
                   batch_transform_result>>

\* The platform runs the job: it writes <output_path>/<input file name>.out,
\* or fails.
TransformJobRun ==
    /\ job # NoObject
    /\ job.status = "InProgress"
    /\ \E success \in BOOLEAN :
        IF success
        THEN /\ s3' = ObjectKey(job.output_path \o <<basename(job.data) \o ".out">>)
                        :> TransformOutput(s3[ObjectKey(job.data)]) @@ s3
             /\ job' = [job EXCEPT !.status = "Completed"]
        ELSE /\ job' = [job EXCEPT !.status = "Failed"]
             /\ UNCHANGED s3
    /\ UNCHANGED <<pc, raised, async, lab3, fstore, tweet_text, data_json, files, s3_file_uri,
                   model_uri, batch_transform_result>>

\* batch_job.transform(...) waits for the job: it returns when the job has
\* completed and raises when it has failed.
TransformReturn ==
    /\ pc = "TransformWait"
    /\ job.status # "InProgress"
    /\ IF job.status = "Completed"
       THEN pc' = "DownloadResult" /\ UNCHANGED raised
       ELSE Abort(OtherError("UnexpectedStatusException"))
    /\ UNCHANGED <<s3, async, lab3, fstore, batch>>

\* S3Downloader.download(output_path, '.') ; with open(output_file) as f:
\*     for line in f: ... batch_transform_result = literal_eval(line)
DownloadResult ==
    /\ pc = "DownloadResult"
    /\ IF ObjectExists(ResultUri)
       THEN LET content == s3[ObjectKey(ResultUri)]
                lines   == SplitLines(content, <<>>)
            IN  /\ files' = basename(ResultUri) :> content @@ files
                /\ batch_transform_result' =
                        IF lines = <<>> THEN <<>> ELSE ParseLine(lines[Len(lines)])
                /\ pc' = "BatchDone"
                /\ UNCHANGED raised
       ELSE /\ Abort(ClientError("404"))
            /\ UNCHANGED <<files, batch_transform_result>>
    /\ UNCHANGED <<s3, async, lab3, fstore, tweet_text, data_json, s3_file_uri, model_uri, job>>

NotebookBatch ==
    \/ LoadDataset
    \/ Preprocess
    \/ UploadInput
    \/ DownloadPretrained
    \/ PackageModel
    \/ UploadModelTar
    \/ Transform
    \/ TransformReturn
    \/ DownloadResult

NextBatch == NotebookBatch \/ TransformJobRun

SpecBatch == InitBatch /\ [][NextBatch]_vars

----------------------------------------------------------------------------
(* Properties of the batch-transform notebook *)

\* The text a JSON string body stands for; <<"invalid">> when the body holds
\* a bare quote, a bare line break or an unknown escape.
RECURSIVE JsonUnescape(_)
JsonUnescape(body) ==
    IF body = <<>> THEN <<>>
    ELSE IF Head(body) \in {"\"", "\n"} THEN <<"invalid">>
    ELSE IF Head(body) # "\\" THEN <<Head(body)>> \o JsonUnescape(Tail(body))
    ELSE IF Len(body) < 2 THEN <<"invalid">>
    ELSE LET rest == JsonUnescape(SubSeq(body, 3, Len(body)))
         IN  CASE body[2] = "\""    -> <<"\"">> \o rest
               [] body[2] = "\\"    -> <<"\\">> \o rest
               [] body[2] = "n"     -> <<"\n">> \o rest
               [] body[2] = "u00e9" -> <<"é">> \o rest
               [] OTHER             -> <<"invalid">>

\* line is a JSON object with the single key inputs and the value text
IsInputsObject(line, text) ==
    /\ Len(line) >= 6
    /\ SubSeq(line, 1, 4) = <<"{", "\"inputs\"", ": ", "\"">>
    /\ SubSeq(line, Len(line) - 1, Len(line)) = <<"\"", "}">>
    /\ "invalid" \notin {text[n] : n \in 1..Len(text)}
    /\ JsonUnescape(SubSeq(line, 5, Len(line) - 2)) = text

WithoutAt(text) == SelectSeq(text, LAMBDA c : c # "@")

Preprocessed == pc \notin {"LoadDataset", "Preprocess"}

\* C10: once the pre-processing cell has run, the file tweet_data.jsonl has
\* exactly one newline-terminated line per tweet, in input order, each line a
\* JSON object with the single key inputs whose value is the tweet without
\* any '@'; data_json holds the same objects in the same order.
C10_JsonLines ==
    Preprocessed =>
        LET text  == files[dataset_jsonl_file]
            lines == SplitLines(text, <<>>)
        IN  /\ text # <<>> => text[Len(text)] = "\n"
            /\ Len(lines) = Len(tweet_text)
            /\ \A n \in 1..Len(tweet_text) :
                    IsInputsObject(lines[n], WithoutAt(tweet_text[n]))
            /\ Len(data_json) = Len(tweet_text)
            /\ \A n \in 1..Len(tweet_text) :
                    data_json[n] = [inputs |-> WithoutAt(tweet_text[n])]

\* The pre-processing cell has written two tweets, the first with two '@' and
\* the second with a line break inside.
C10_Witness ==
    /\ pc = "UploadInput"
    /\ tweet_text = << <<"a", "@", "b", "@">>, <<"l", "\n", "m">> >>
    /\ Len(SplitLines(files[dataset_jsonl_file], <<>>)) = 2
    /\ data_json[1] = [inputs |-> <<"a", "b">>]

InputUri == S3Uploader_upload(dataset_jsonl_file, input_s3_path)
ModelUri == S3Uploader_upload("model.tar.gz", batch_model_url)

\* C9: when the transform job is submitted the model artifact and the JSONL
\* input are in object storage and are what the job is given; the result is
\* downloaded only once the transform call has returned (the job completed),
\* and what is downloaded is the object <input file name>.out under the
\* job's output path, which is there.
C9_BatchOrder ==
    /\ job # NoObject =>
            /\ pc \notin {"LoadDataset", "Preprocess", "UploadInput", "DownloadPretrained",
                          "PackageModel", "UploadModelTar", "Transform"}
            /\ job.data = InputUri /\ job.model_data = ModelUri
            /\ ObjectExists(InputUri) /\ ObjectExists(ModelUri)
            /\ s3[ObjectKey(InputUri)] = files[dataset_jsonl_file]
            /\ s3[ObjectKey(ModelUri)] = files["model.tar.gz"]
    /\ pc \in {"DownloadResult", "BatchDone"} => job # NoObject /\ job.status = "Completed"
    /\ output_file \in DOMAIN files =>
            /\ pc = "BatchDone"
            /\ files[output_file] =
                    s3[ObjectKey(job.output_path \o <<basename(job.data) \o ".out">>)]
    /\ pc = "BatchDone" => output_file \in DOMAIN files
    /\ raised # ClientError("404")

\* The result of a two-tweet job has been downloaded.
C9_Witness ==
    /\ pc = "BatchDone"
    /\ Len(tweet_text) = 2
    /\ job.status = "Completed"
    /\ Len(SplitLines(files[output_file], <<>>)) = 2
    /\ batch_transform_result # <<>>

\* The S3 path an object was uploaded to: its URI without the file name.
UploadedTo(uri) == SubSeq(uri, 1, Len(uri) - 1)

\* C11: the output_path given to the transformer equals the S3 path the input
\* JSONL file was uploaded to.
C11_OutputBesideInput ==
    job # NoObject => job.output_path = UploadedTo(job.data)

----------------------------------------------------------------------------
(* sklearn_abalone_featurizer.py: the inference script of the preprocessor *)

\* What a call does: it returns a value or raises an exception.
Return(value) == [ok |-> TRUE, value |-> value]
Raise(exc) == [ok |-> FALSE, exc |-> exc]

\* An exception with its message.
ScriptError(cls, msg) == [cls |-> cls, msg |-> msg]

feature_columns_names ==
    <<"sex", "length", "diameter", "height", "whole_weight", "shucked_weight",
      "viscera_weight", "shell_weight">>

label_column == "rings"

Range(seq) == {seq[n] : n \in 1..Len(seq)}

\* The column of a frame that has the given name.
ColumnOf(frame, name) == CHOOSE n \in 1..Len(frame.columns) : frame.columns[n] = name

\* CSV text is a sequence of cells, "," and "\n". A cell that reads as a
\* number is parsed as that number.
Digits == -9..9
IsNumber(cell) == \E n \in Digits : ToString(n) = cell
ParseCell(cell) == IF IsNumber(cell) THEN CHOOSE n \in Digits : ToString(n) = cell ELSE cell

\* pd.read_csv(StringIO(input_data), header=None): one row per line, the
\* columns numbered from 0.
read_csv(text) ==
    LET lines == SplitLines(text, <<>>)
        cells(line) == SelectSeq(line, LAMBDA c : c # ",")
    IN  [columns |-> [n \in 1..Len(cells(lines[1])) |-> ToString(n - 1)],
         rows    |-> [k \in 1..Len(lines) |->
                        [n \in 1..Len(cells(lines[k])) |-> ParseCell(cells(lines[k])[n])]]]

\* The rows a CSV body stands for.
CsvRows(body) ==
    LET lines == SplitLines(body, <<>>)
    IN  [k \in 1..Len(lines) |->
            [n \in 1..Len(SelectSeq(lines[k], LAMBDA c : c # ",")) |->
                ParseCell(SelectSeq(lines[k], LAMBDA c : c # ",")[n])]]

\* Mutant: every content type is read as CSV.
input_fn_AnyContentType(data, ctype) ==
    LET frame == read_csv(data)
    IN  IF data = <<>> THEN Raise(ScriptError("EmptyDataError", "No columns to parse from file"))
        ELSE IF Len(frame.columns) = Len(feature_columns_names) + 1
        THEN Return([frame EXCEPT !.columns = feature_columns_names \o <<label_column>>])
        ELSE IF Len(frame.columns) = Len(feature_columns_names)
        THEN Return([frame EXCEPT !.columns = feature_columns_names])
        ELSE Return(frame)

\* def input_fn(input_data, content_type)
input_fn(data, ctype) ==
    IF ctype = "text/csv"
    THEN LET frame == read_csv(data)
         IN  IF data = <<>>
             THEN Raise(ScriptError("EmptyDataError", "No columns to parse from file"))
             ELSE IF Len(frame.columns) = Len(feature_columns_names) + 1
             THEN Return([frame EXCEPT !.columns = feature_columns_names \o <<label_column>>])
             ELSE IF Len(frame.columns) = Len(feature_columns_names)
             THEN Return([frame EXCEPT !.columns = feature_columns_names])
             ELSE Return(frame)
    ELSE Raise(ScriptError("ValueError", ctype \o " not supported by script!"))

RECURSIVE SumSeq(_)
SumSeq(seq) == IF seq = <<>> THEN 0 ELSE Head(seq) + SumSeq(Tail(seq))

\* The categories of sex, in sorted order.
SexOrder == <<"F", "I", "M", "X">>

\* The training script: the rows are read with the names of the features and
\* the label, the label is dropped, and the preprocessor is fitted: the
\* numeric columns are centred on their mean (unit scale), the categorical
\* column sex is one-hot encoded over the categories seen.
FitPreprocessor(rows) ==
    LET names   == feature_columns_names \o <<label_column>>
        frame   == [columns |-> names, rows |-> rows]
        dropped == [columns |-> feature_columns_names,
                    rows |-> [k \in 1..Len(rows) |-> SubSeq(rows[k], 1, Len(feature_columns_names))]]
        column(name) == [k \in 1..Len(rows) |-> dropped.rows[k][ColumnOf(dropped, name)]]
    IN  [num |-> Tail(feature_columns_names),
         cat |-> <<"sex">>,
         mean |-> [name \in Range(Tail(feature_columns_names)) |->
                        SumSeq(column(name)) \div Len(rows)],
         categories |-> SelectSeq(SexOrder, LAMBDA c : c \in Range(column("sex")))]

\* model.transform(input_data): per row the centred numeric columns, then
\* the one-hot columns; the columns are taken by name, and a frame without
\* them is refused.
transform(fitted, frame) ==
    IF ~(Range(fitted.num) \cup Range(fitted.cat) \subseteq Range(frame.columns))
    THEN Raise(ScriptError("ValueError", "columns are missing"))
    ELSE Return([k \in 1..Len(frame.rows) |->
            [n \in 1..Len(fitted.num) |->
                frame.rows[k][ColumnOf(frame, fitted.num[n])] - fitted.mean[fitted.num[n]]]
            \o [c \in 1..Len(fitted.categories) |->
                IF frame.rows[k][ColumnOf(frame, "sex")] = fitted.categories[c] THEN 1 ELSE 0]])

\* Mutant: the label is appended as the last column.
predict_fn_LabelLast(frame, fitted) ==
    LET features == transform(fitted, frame)
    IN  IF ~features.ok THEN features
        ELSE IF label_column \in Range(frame.columns)
        THEN Return([k \in 1..Len(features.value) |->
                Append(features.value[k], frame.rows[k][ColumnOf(frame, label_column)])])
        ELSE features

\* def predict_fn(input_data, model)
predict_fn(frame, fitted) ==
    LET features == transform(fitted, frame)
    IN  IF ~features.ok THEN features
        ELSE IF label_column \in Range(frame.columns)
        THEN Return([k \in 1..Len(features.value) |->
                <<frame.rows[k][ColumnOf(frame, label_column)]>> \o features.value[k]])
        ELSE features

\* json.dumps(json_output): the document as JSON text
json_dumps(document) == [json |-> document]

\* The cells of a row, separated by commas.
RECURSIVE JoinCells(_)
JoinCells(row) ==
    IF row = <<>> THEN <<>>
    ELSE IF Len(row) = 1 THEN <<ToString(row[1])>>
    ELSE <<ToString(row[1]), ",">> \o JoinCells(Tail(row))

\* encoders.encode(prediction, 'text/csv'): one line per row
RECURSIVE encode_csv(_)
encode_csv(rows) ==
    IF rows = <<>> THEN <<>> ELSE JoinCells(Head(rows)) \o <<"\n">> \o encode_csv(Tail(rows))

\* def output_fn(prediction, accept). RuntimeException is no name of the
\* language or of the script's imports: the raise statement of the last
\* branch fails with a NameError before any exception is built.
output_fn(pred, acc) ==
    IF acc = "application/json"
    THEN Return([body |-> json_dumps([instances |-> [k \in 1..Len(pred) |-> [features |-> pred[k]]]]),
                 mimetype |-> acc])
    ELSE IF acc = "text/csv"
    THEN Return([body |-> encode_csv(pred), mimetype |-> acc])
    ELSE Raise(ScriptError("NameError", "name 'RuntimeException' is not defined"))

\* The rows the payloads and the datasets are made of: without the label,
\* with it, and one with too few columns.
UnlabelledRows ==
    { <<"M", "4", "3", "1", "5", "2", "1", "1">>,
      <<"F", "5", "4", "2", "6", "3", "2", "2">>,
      <<"X", "3", "2", "1", "2", "1", "1", "0">> }
LabelledRows ==
    { <<"M", "4", "3", "1", "5", "2", "1", "1", "9">>,
      <<"I", "2", "1", "1", "2", "1", "1", "1", "0">>,
      <<"F", "5", "4", "2", "6", "3", "2", "2", "7">> }
ShortRow == <<"I", "4", "3">>

\* The CSV text of rows of cells.
RECURSIVE CsvLine(_)
CsvLine(row) ==
    IF Len(row) <= 1 THEN row ELSE <<Head(row), ",">> \o CsvLine(Tail(row))
RECURSIVE CsvText(_)
CsvText(rows) ==
    IF rows = <<>> THEN <<>>
    ELSE IF Len(rows) = 1 THEN CsvLine(rows[1])
    ELSE CsvLine(rows[1]) \o <<"\n">> \o CsvText(Tail(rows))

RowLists(rows) == UNION {[1..n -> rows] : n \in 1..MaxRows}

Payloads ==
    {CsvText(rows) : rows \in RowLists(UnlabelledRows) \cup RowLists(LabelledRows)}
        \cup {CsvText(<<ShortRow>>), <<>>}

ContentTypes == {"text/csv", "application/json", "text/csv; charset=utf-8"}
Accepts == {"application/json", "text/csv", "application/x-npy"}

\* The data the preprocessor of the script's requests was fitted on.
SampleTraining ==
    << <<"M", 4, 3, 1, 5, 2, 1, 1, 9>>,
       <<"I", 2, 1, 1, 2, 1, 1, 1, 0>>,
       <<"F", 5, 4, 2, 6, 3, 2, 2, 7>> >>

\* A request arrives at the container: model_fn has loaded the fitted
\* preprocessor, and the handlers run in the order input_fn, predict_fn,
\* output_fn.
InitScript ==
    /\ pc = "input_fn"
    /\ FreshNotebooks
    /\ NoPipeline
    /\ NoFeatures
    /\ input_data \in Payloads
    /\ content_type \in ContentTypes
    /\ accept \in Accepts
    /\ model = FitPreprocessor(SampleTraining)
    /\ df = NoObject
    /\ prediction = <<>>
    /\ response = NoObject

InputFn ==
    /\ pc = "input_fn"
    /\ LET r == input_fn(input_data, content_type)
       IN  IF r.ok
           THEN df' = r.value /\ pc' = "predict_fn" /\ UNCHANGED raised
           ELSE Abort(r.exc) /\ UNCHANGED df
    /\ UNCHANGED <<s3, async, batch, fstore, pipeline, input_data, content_type, accept, model,
                   prediction, response>>

PredictFn ==
    /\ pc = "predict_fn"
    /\ LET r == predict_fn(df, model)
       IN  IF r.ok
           THEN prediction' = r.value /\ pc' = "output_fn" /\ UNCHANGED raised
           ELSE Abort(r.exc) /\ UNCHANGED prediction
    /\ UNCHANGED <<s3, async, batch, fstore, pipeline, input_data, content_type, accept, model,
                   df, response>>

OutputFn ==
    /\ pc = "output_fn"
    /\ LET r == output_fn(prediction, accept)
       IN  IF r.ok
           THEN response' = r.value /\ pc' = "Responded" /\ UNCHANGED raised
           ELSE Abort(r.exc) /\ UNCHANGED response
    /\ UNCHANGED <<s3, async, batch, fstore, pipeline, input_data, content_type, accept, model,
                   df, prediction>>

NextScript == InputFn \/ PredictFn \/ OutputFn

SpecScript == InitScript /\ [][NextScript]_vars

----------------------------------------------------------------------------
(* Inference Pipeline with Scikit-learn and Linear Learner *)

prefix == "Scikit-LinearLearner-pipeline-abalone-example"
pipeline_model_name == "inference-pipeline-<timestamp>"
pipeline_endpoint_name == "inference-pipeline-ep-<timestamp>"
sklearn_model_name == "sagemaker-scikit-learn-<timestamp>"

\* ll_estimator.set_hyperparameters(feature_dim=10, ...)
feature_dim == 10

\* The rows of abalone.csv: one abalone of each sex, then up to MaxRows
\* more; or up to MaxRows abalones only.
AbaloneBase ==
    << <<"M", "4", "3", "1", "5", "2", "1", "1", "9">>,
       <<"I", "2", "1", "1", "2", "1", "1", "1", "0">>,
       <<"F", "5", "4", "2", "6", "3", "2", "2", "7">> >>
Datasets ==
    {CsvText(AbaloneBase \o rows) : rows \in RowLists(LabelledRows) \cup {<<>>}}
        \cup {CsvText(rows) : rows \in RowLists(LabelledRows)}

\* The inference-pipeline notebook starts at its first cell.
InitPipeline == pc = "DownloadAbalone" /\ Fresh

\* ! aws s3 cp s3://sagemaker-sample-files/datasets/tabular/uci_abalone/abalone.csv ./abalone_data
DownloadAbalone ==
    /\ pc = "DownloadAbalone"
    /\ \E data \in Datasets : abalone' = data
    /\ pc' = "UploadTrain"
    /\ UNCHANGED <<raised, s3, async, batch, fstore, script, train_input, sklearn_preprocessor,
                   transformer, preprocessed_train, ll_estimator, sm_model, hosted,
                   hops, result, calls>>

\* train_input = sagemaker_session.upload_data(path=..., bucket=bucket, key_prefix=...)
UploadTrain ==
    /\ pc = "UploadTrain"
    /\ s3' = Put(s3, s3_bucket, <<prefix, "train", "abalone.csv">>, abalone)
    /\ train_input' = S3Uri(s3_bucket, <<prefix, "train", "abalone.csv">>)
    /\ calls' = Append(calls, "upload_data")
    /\ pc' = "CreateSKLearn"
    /\ UNCHANGED <<raised, async, batch, fstore, script, abalone, sklearn_preprocessor,
                   transformer, preprocessed_train, ll_estimator, sm_model, hosted,
                   hops, result>>

\* sklearn_preprocessor = SKLearn(entry_point=script_path, ...)
CreateSKLearn ==
    /\ pc = "CreateSKLearn"
    /\ sklearn_preprocessor' = [entry_point |-> "sklearn_abalone_featurizer.py",
                                fitted |-> FALSE]
    /\ pc' = "FitSKLearn"
    /\ UNCHANGED <<raised, s3, async, batch, fstore, script, abalone, train_input, transformer,
                   preprocessed_train, ll_estimator, sm_model, hosted, hops, result, calls>>

\* sklearn_preprocessor.fit({"train": train_input}): the training job runs
\* the script on the train channel and fit returns when it has completed,
\* or raises when it has failed.
FitSKLearn ==
    /\ pc = "FitSKLearn"
    /\ calls' = Append(calls, "sklearn_preprocessor.fit")
    /\ \E success \in BOOLEAN :
        IF success /\ ObjectExists(train_input)
        THEN /\ sklearn_preprocessor' =
                    [sklearn_preprocessor EXCEPT !.fitted = TRUE] @@
                    [model_data |-> FitPreprocessor(read_csv(s3[ObjectKey(train_input)]).rows)]
             /\ pc' = "CreateTransformer"
             /\ UNCHANGED raised
        ELSE /\ Abort(OtherError("UnexpectedStatusException"))
             /\ UNCHANGED sklearn_preprocessor
    /\ UNCHANGED <<s3, async, batch, fstore, script, abalone, train_input, transformer,
                   preprocessed_train, ll_estimator, sm_model, hosted, hops, result>>

\* transformer = sklearn_preprocessor.transformer(..., assemble_with="Line", accept="text/csv"):
\* the estimator's model is created on the platform.
CreateTransformer ==
    /\ pc = "CreateTransformer"
    /\ transformer' = [model_name |-> sklearn_model_name,
                       assemble_with |-> "Line",
                       accept |-> "text/csv",
                       status |-> "NotStarted"]
    /\ hosted' = sklearn_model_name :>
                    [kind |-> "model", containers |-> <<[image |-> "sklearn",
                        model_data |-> sklearn_preprocessor.model_data]>>] @@ hosted
    /\ pc' = "Transform"
    /\ UNCHANGED <<raised, s3, async, batch, fstore, script, abalone, train_input,
                   sklearn_preprocessor, preprocessed_train, ll_estimator, sm_model,
                   hops, result, calls>>

\* The output path of a transform job that was given none.
TransformOutputPath == S3Uri(s3_bucket, <<"sagemaker-scikit-learn-<job>">>)

\* transformer.transform(train_input, content_type="text/csv"): the job is created.
PipelineTransform ==
    /\ pc = "Transform"
    /\ transformer' = [transformer EXCEPT !.status = "InProgress"] @@
                        [data |-> train_input,
                         content_type |-> "text/csv",
                         output_path |-> TransformOutputPath]
    /\ calls' = Append(calls, "transformer.transform")
    /\ pc' = "WaitTransform"
    /\ UNCHANGED <<raised, s3, async, batch, fstore, script, abalone, train_input,
                   sklearn_preprocessor, preprocessed_train, ll_estimator, sm_model,
                   hosted, hops, result>>

\* What the container of the preprocessor answers to a request: the
\* handlers of the script in their order.
SKLearnContainer(fitted, body, ctype, acc) ==
    LET frame == input_fn(body, ctype)
        array == predict_fn(frame.value, fitted)
    IN  IF ~frame.ok THEN frame
        ELSE IF ~array.ok THEN array
        ELSE output_fn(array.value, acc)

\* The platform runs the transform job: the input object is sent to the
\* model's container and the answer is stored as <object name>.out under the
\* output path; or the job fails.
PipelineTransformRun ==
    /\ transformer # NoObject
    /\ transformer.status = "InProgress"
    /\ LET answer == SKLearnContainer(hosted[transformer.model_name].containers[1].model_data,
                                      s3[ObjectKey(transformer.data)],
                                      transformer.content_type, transformer.accept)
       IN  \E success \in BOOLEAN :
            IF success /\ answer.ok
            THEN /\ s3' = ObjectKey(transformer.output_path
                                    \o <<basename(transformer.data) \o ".out">>)
                            :> answer.value.body @@ s3
                 /\ transformer' = [transformer EXCEPT !.status = "Completed"]
            ELSE /\ transformer' = [transformer EXCEPT !.status = "Failed"]
                 /\ UNCHANGED s3
    /\ UNCHANGED <<pc, raised, async, batch, fstore, script, abalone, train_input,
                   sklearn_preprocessor, preprocessed_train, ll_estimator, sm_model,
                   hosted, hops, result, calls>>

\* Mutant: the job is not waited for.
WaitTransform_NoWait ==
    /\ pc = "WaitTransform"
    /\ preprocessed_train' = transformer.output_path
    /\ pc' = "CreateLL"
    /\ UNCHANGED <<raised, s3, async, batch, fstore, script, abalone, train_input,
                   sklearn_preprocessor, transformer, ll_estimator, sm_model, hosted,
                   hops, result, calls>>

\* transformer.wait() ; preprocessed_train = transformer.output_path
WaitTransform ==
    /\ pc = "WaitTransform"
    /\ transformer.status \in {"Completed", "Failed"}
    /\ calls' = Append(calls, "transformer.wait")
    /\ IF transformer.status = "Completed"
       THEN /\ preprocessed_train' = transformer.output_path
            /\ pc' = "CreateLL"
            /\ UNCHANGED raised
       ELSE /\ Abort(OtherError("UnexpectedStatusException"))
            /\ UNCHANGED preprocessed_train
    /\ UNCHANGED <<s3, async, batch, fstore, script, abalone, train_input, sklearn_preprocessor,
                   transformer, ll_estimator, sm_model, hosted, hops, result>>

\* ll_estimator = sagemaker.estimator.Estimator(ll_image, ...) ; set_hyperparameters(feature_dim=10, ...)
CreateLL ==
    /\ pc = "CreateLL"
    /\ ll_estimator' = [image |-> "linear-learner", feature_dim |-> feature_dim,
                        predictor_type |-> "regressor", fitted |-> FALSE]
    /\ pc' = "FitLL"
    /\ UNCHANGED <<raised, s3, async, batch, fstore, script, abalone, train_input,
                   sklearn_preprocessor, transformer, preprocessed_train, sm_model,
                   hosted, hops, result, calls>>

\* The objects under an S3 prefix (s3_data_type="S3Prefix").
ObjectsUnder(uri) ==
    {k \in DOMAIN s3 : Len(k) > Len(ObjectKey(uri))
                        /\ SubSeq(k, 1, Len(ObjectKey(uri))) = ObjectKey(uri)}

\* What Linear Learner learns from rows of label and features: a regressor.
FitLinearLearner(rows) ==
    [bias |-> SumSeq([k \in 1..Len(rows) |-> rows[k][1]]) \div Len(rows)]

\* ll_train_data = TrainingInput(preprocessed_train, content_type="text/csv", ...)
\* ll_estimator.fit(inputs=data_channels): the training job reads the CSV
\* objects under the prefix, label first, and fails without data or with
\* rows that have not feature_dim features.
FitLL ==
    /\ pc = "FitLL"
    /\ calls' = Append(calls, "ll_estimator.fit")
    /\ \E success \in BOOLEAN :
        LET found == ObjectsUnder(preprocessed_train)
            rows  == CsvRows(s3[CHOOSE k \in found : TRUE])
        IN  IF /\ success
               /\ found # {}
               /\ \A k \in 1..Len(rows) : Len(rows[k]) = ll_estimator.feature_dim + 1
            THEN /\ ll_estimator' = [ll_estimator EXCEPT !.fitted = TRUE] @@
                        [train |-> preprocessed_train, model_data |-> FitLinearLearner(rows)]
                 /\ pc' = "CreatePipelineModel"
                 /\ UNCHANGED raised
            ELSE /\ Abort(OtherError("UnexpectedStatusException"))
                 /\ UNCHANGED ll_estimator
    /\ UNCHANGED <<s3, async, batch, fstore, script, abalone, train_input, sklearn_preprocessor,
                   transformer, preprocessed_train, sm_model, hosted, hops, result>>

\* Mutant: the models are listed in the other order.
PipelineModels_Reversed ==
    << [image |-> "linear-learner", model_data |-> ll_estimator.model_data],
       [image |-> "sklearn", model_data |-> sklearn_preprocessor.model_data] >>

\* models=[scikit_learn_inferencee_model, linear_learner_model], with
\* scikit_learn_inferencee_model = sklearn_preprocessor.create_model() and
\* linear_learner_model = ll_estimator.create_model()
PipelineModels ==
    << [image |-> "sklearn", model_data |-> sklearn_preprocessor.model_data],
       [image |-> "linear-learner", model_data |-> ll_estimator.model_data] >>

\* sm_model = PipelineModel(name=model_name, role=role, models=[...])
CreatePipelineModel ==
    /\ pc = "CreatePipelineModel"
    /\ sm_model' = [name |-> pipeline_model_name, models |-> PipelineModels]
    /\ pc' = "DeployPipeline"
    /\ UNCHANGED <<raised, s3, async, batch, fstore, script, abalone, train_input,
                   sklearn_preprocessor, transformer, preprocessed_train, ll_estimator,
                   hosted, hops, result, calls>>

\* sm_model.deploy(initial_instance_count=1, instance_type=..., endpoint_name=endpoint_name):
\* the model and the endpoint are created and deploy returns when the
\* endpoint is in service, or raises.
DeployPipeline ==
    /\ pc = "DeployPipeline"
    /\ calls' = Append(calls, "sm_model.deploy")
    /\ \E success \in BOOLEAN :
        IF success
        THEN /\ hosted' = pipeline_endpoint_name :>
                            [kind |-> "endpoint", model |-> sm_model.name,
                             containers |-> sm_model.models, status |-> "InService"]
                          @@ sm_model.name :>
                            [kind |-> "model", containers |-> sm_model.models]
                          @@ hosted
             /\ pc' = "Predict"
             /\ UNCHANGED raised
        ELSE /\ Abort(OtherError("UnexpectedStatusException"))
             /\ UNCHANGED hosted
    /\ UNCHANGED <<s3, async, batch, fstore, script, abalone, train_input, sklearn_preprocessor,
                   transformer, preprocessed_train, ll_estimator, sm_model, hops, result>>

\* payload = "M, 0.44, 0.365, 0.125, 0.516, 0.2155, 0.114, 0.155"
payload == CsvLine(<<"M", "4", "3", "1", "5", "2", "1", "1">>)

\* predictor = Predictor(endpoint_name=endpoint_name, ..., serializer=CSVSerializer())
\* predictor.predict(payload): the request
PredictRequest == [body |-> payload, content_type |-> "text/csv", accept |-> "*/*"]

\* print(predictor.predict(payload)): the request is sent to the endpoint.
Predict ==
    /\ pc = "Predict"
    /\ calls' = Append(calls, "predictor.predict")
    /\ IF pipeline_endpoint_name \in DOMAIN hosted
       THEN /\ hops' = <<>>
            /\ pc' = "PredictWait"
            /\ UNCHANGED raised
       ELSE /\ Abort(ClientError("ValidationError"))
            /\ UNCHANGED hops
    /\ UNCHANGED <<s3, async, batch, fstore, script, abalone, train_input, sklearn_preprocessor,
                   transformer, preprocessed_train, ll_estimator, sm_model, hosted, result>>

\* What the Linear Learner container answers: one score per row of
\* feature_dim features, as JSON.
LinearLearnerContainer(learned, body, ctype, acc) ==
    LET rows == IF ctype = "application/json"
                THEN [k \in 1..Len(body.json.instances) |-> body.json.instances[k].features]
                ELSE CsvRows(body)
    IN  IF ctype \notin {"application/json", "text/csv"}
        THEN Raise(ScriptError("ModelError", "unsupported content type"))
        ELSE IF \E k \in 1..Len(rows) : Len(rows[k]) # feature_dim
        THEN Raise(ScriptError("ModelError", "wrong number of features"))
        ELSE Return([body |-> json_dumps([predictions |->
                        [k \in 1..Len(rows) |-> [score |-> learned.bias + SumSeq(rows[k])]]]),
                     mimetype |-> "application/json"])

RunContainer(container, body, ctype, acc) ==
    IF container.image = "sklearn"
    THEN SKLearnContainer(container.model_data, body, ctype, acc)
    ELSE LinearLearnerContainer(container.model_data, body, ctype, acc)

\* The endpoint hands the request to its containers in the order of the
\* model list: the first is given the request, each later one the answer of
\* the one before it; between containers the accept value is JSON.
ContainerStep ==
    /\ pc = "PredictWait"
    /\ LET containers == hosted[pipeline_endpoint_name].containers
           k     == Len(hops) + 1
           input == IF k = 1
                    THEN [body |-> PredictRequest.body,
                          content_type |-> PredictRequest.content_type]
                    ELSE [body |-> hops[k - 1].answer.value.body,
                          content_type |-> hops[k - 1].answer.value.mimetype]
           acc   == IF k = Len(containers) THEN PredictRequest.accept ELSE "application/json"
       IN  /\ k <= Len(containers)
           /\ k > 1 => hops[k - 1].answer.ok
           /\ hops' = Append(hops, [container |-> containers[k].image,
                                    input |-> input,
                                    answer |-> RunContainer(containers[k], input.body,
                                                            input.content_type, acc)])
    /\ UNCHANGED <<pc, raised, s3, async, batch, fstore, script, abalone, train_input,
                   sklearn_preprocessor, transformer, preprocessed_train, ll_estimator,
                   sm_model, hosted, result, calls>>

\* predictor.predict returns the answer of the last container, or raises
\* when a container has failed.
PredictReturn ==
    /\ pc = "PredictWait"
    /\ hops # <<>>
    /\ LET last == hops[Len(hops)]
       IN  IF last.answer.ok
           THEN /\ Len(hops) = Len(hosted[pipeline_endpoint_name].containers)
                /\ result' = last.answer.value
                /\ pc' = "DeleteModel"
                /\ UNCHANGED raised
           ELSE /\ Abort(OtherError("ModelError"))
                /\ UNCHANGED result
    /\ UNCHANGED <<s3, async, batch, fstore, script, abalone, train_input, sklearn_preprocessor,
                   transformer, preprocessed_train, ll_estimator, sm_model, hosted,
                   hops, calls>>

Without(f, name) == [n \in DOMAIN f \ {name} |-> f[n]]

\* predictor.delete_model(): the models of the endpoint are deleted.
PredictorDeleteModel ==
    /\ pc = "DeleteModel"
    /\ calls' = Append(calls, "predictor.delete_model")
    /\ IF pipeline_endpoint_name \in DOMAIN hosted
       THEN /\ hosted' = Without(hosted, hosted[pipeline_endpoint_name].model)
            /\ pc' = "DeleteEndpoint"
            /\ UNCHANGED raised
       ELSE /\ Abort(ClientError("ValidationException"))
            /\ UNCHANGED hosted
    /\ UNCHANGED <<s3, async, batch, fstore, script, abalone, train_input, sklearn_preprocessor,
                   transformer, preprocessed_train, ll_estimator, sm_model, hops, result>>

\* sm_client.delete_endpoint(EndpointName=endpoint_name)
DeletePipelineEndpoint ==
    /\ pc = "DeleteEndpoint"
    /\ calls' = Append(calls, "sm_client.delete_endpoint")
    /\ hosted' = Without(hosted, pipeline_endpoint_name)
    /\ pc' = "TransformerDeleteModel"
    /\ UNCHANGED <<raised, s3, async, batch, fstore, script, abalone, train_input,
                   sklearn_preprocessor, transformer, preprocessed_train, ll_estimator,
                   sm_model, hops, result>>

\* transformer.delete_model()
TransformerDeleteModel ==
    /\ pc = "TransformerDeleteModel"
    /\ calls' = Append(calls, "transformer.delete_model")
    /\ hosted' = Without(hosted, transformer.model_name)
    /\ pc' = "PipelineDone"
    /\ UNCHANGED <<raised, s3, async, batch, fstore, script, abalone, train_input,
                   sklearn_preprocessor, transformer, preprocessed_train, ll_estimator,
                   sm_model, hops, result>>

NotebookPipeline ==
    \/ DownloadAbalone
    \/ UploadTrain
    \/ CreateSKLearn
    \/ FitSKLearn
    \/ CreateTransformer
    \/ PipelineTransform
    \/ WaitTransform
    \/ CreateLL
    \/ FitLL
    \/ CreatePipelineModel
    \/ DeployPipeline
    \/ Predict
    \/ PredictReturn
    \/ PredictorDeleteModel
    \/ DeletePipelineEndpoint
    \/ TransformerDeleteModel

NextPipeline == NotebookPipeline \/ PipelineTransformRun \/ ContainerStep

SpecPipeline == InitPipeline /\ [][NextPipeline]_vars

----------------------------------------------------------------------------
(* Feature store notebook: feature-level metadata and feature search *)

\* Names and descriptions are texts: sequences of words and of the
\* separators between them, so that Contains is a test the text can fail.
customers_group == "fscw-customers-05-22-21-52"
earlier_customers_group == "fscw-customers-05-22-19-32"
immersion_day_group == "FG-ImmersionDay-b9573035"

is_married == <<"is", "_", "married">>

\* The FeatureDefinitions describe_feature_group shows for the customers
\* feature group.
CustomerFeatures ==
    { [FeatureName |-> <<"customer", "_", "id">>, FeatureType |-> "String"],
      [FeatureName |-> <<"sex">>,                 FeatureType |-> "Integral"],
      [FeatureName |-> is_married,                FeatureType |-> "Integral"],
      [FeatureName |-> <<"event", "_", "time">>,  FeatureType |-> "String"],
      [FeatureName |-> <<"age", "_", "18-29">>,   FeatureType |-> "Integral"],
      [FeatureName |-> <<"age", "_", "30-39">>,   FeatureType |-> "Integral"],
      [FeatureName |-> <<"age", "_", "40-49">>,   FeatureType |-> "Integral"],
      [FeatureName |-> <<"age", "_", "50-59">>,   FeatureType |-> "Integral"],
      [FeatureName |-> <<"age", "_", "60-69">>,   FeatureType |-> "Integral"],
      [FeatureName |-> <<"age", "_", "70-plus">>, FeatureType |-> "Integral"],
      [FeatureName |-> <<"n", "_", "days", "_", "active">>,
                                                  FeatureType |-> "Fractional"] }

\* The feature of another team's feature group that the search also finds.
ImmersionDayFeatures ==
    { [FeatureName |-> <<"marital", "_", "married">>, FeatureType |-> "Integral"] }

\* Description="boolean value whether the customer is married or not"
married_description ==
    <<"boolean", " ", "value", " ", "whether", " ", "the", " ", "customer", " ",
      "is", " ", "married", " ", "or", " ", "not">>

\* ParameterAdditions=[{"Key": "team", ...}, {"Key": "org", ...}]
parameter_additions ==
    << [Key |-> "team", Value |-> <<"mlops">>],
       [Key |-> "org",  Value |-> <<"customer", " ", "product", " ", "team">>] >>

\* A keyword argument the call does not pass.
NotGiven == <<"NotGiven">>

\* A feature without a description has no Description attribute.
NoDescription == <<>>

\* The metadata a feature has when its feature group is created.
NewFeature(definition) ==
    [FeatureType      |-> definition.FeatureType,
     Description      |-> NoDescription,
     Parameters       |-> {},
     LastModifiedTime |-> 0]

\* The features of one feature group, as the catalogue holds them.
GroupFeatures(group, definitions) ==
    [p \in {<<group, d.FeatureName>> : d \in definitions} |->
        NewFeature(CHOOSE d \in definitions : d.FeatureName = p[2])]

\* What earlier runs may have left on is_married: a description, parameters.
EarlierDescriptions == {NoDescription, <<"married", " ", "flag">>}
EarlierParameters ==
    { {}, {<<"team", <<"data">>>>}, {<<"sensitivity", <<"low">>>>} }

\* The catalogues the notebook can find: the customers feature group of the
\* earlier modules (or none, when it was deleted), with or without the
\* feature groups of other runs.
Catalogs ==
    { (IF present
         THEN [GroupFeatures(customers_group, CustomerFeatures) EXCEPT
                  ![<<customers_group, is_married>>].Description = d,
                  ![<<customers_group, is_married>>].Parameters = ps]
         ELSE <<>>)
      @@ (IF earlier THEN GroupFeatures(earlier_customers_group, CustomerFeatures)
                     ELSE <<>>)
      @@ (IF other THEN GroupFeatures(immersion_day_group, ImmersionDayFeatures)
                   ELSE <<>>) :
        present \in BOOLEAN, earlier \in BOOLEAN, other \in BOOLEAN,
        d \in EarlierDescriptions, ps \in EarlierParameters }

FeatureGroupArn(group) == <<"arn:aws:sagemaker", "feature-group", group>>

\* sagemaker_client.describe_feature_group(FeatureGroupName=...)
describe_feature_group(store, group) ==
    IF \E p \in DOMAIN store : p[1] = group
    THEN Return([FeatureGroupArn    |-> FeatureGroupArn(group),
                 FeatureGroupName   |-> group,
                 FeatureDefinitions |->
                    {[FeatureName |-> p[2], FeatureType |-> store[p].FeatureType] :
                        p \in {q \in DOMAIN store : q[1] = group}}])
    ELSE Raise(ClientError("ResourceNotFound"))

\* The parameters after ParameterAdditions: every given pair is there, and
\* a key that was there keeps its value unless a given pair replaces it.
AddParameters_KeepEarlier(parameters, additions) ==
    parameters \cup
        {<<a.Key, a.Value>> : a \in {b \in Range(additions) :
                                        \A p \in parameters : p[1] # b.Key}}

AddParameters(parameters, additions) ==
    {p \in parameters : \A a \in Range(additions) : a.Key # p[1]}
        \cup {<<a.Key, a.Value>> : a \in Range(additions)}

\* sagemaker_client.update_feature_metadata(FeatureGroupName=..., FeatureName=...,
\*     Description=..., ParameterAdditions=[...])
update_feature_metadata(store, group, feature, description, additions) ==
    IF <<group, feature>> \in DOMAIN store
    THEN LET old == store[<<group, feature>>]
         IN  Return([store EXCEPT ![<<group, feature>>] =
                [FeatureType      |-> old.FeatureType,
                 Description      |-> IF description = NotGiven THEN old.Description
                                                               ELSE description,
                 Parameters       |-> AddParameters(old.Parameters, additions),
                 LastModifiedTime |-> old.LastModifiedTime + 1]])
    ELSE Raise(ClientError("ResourceNotFound"))

\* Parameter keys in the order the service lists them.
SortedKeys == <<"org", "sensitivity", "team">>

\* 'Parameters': [{'Key': 'org', ...}, {'Key': 'team', ...}]
ParameterList(parameters) ==
    LET keys == SelectSeq(SortedKeys, LAMBDA k : \E p \in parameters : p[1] = k)
    IN  [n \in 1..Len(keys) |->
            [Key   |-> keys[n],
             Value |-> (CHOOSE p \in parameters : p[1] = keys[n])[2]]]

\* sagemaker_client.describe_feature_metadata(FeatureGroupName=..., FeatureName=...)
describe_feature_metadata(store, group, feature) ==
    IF <<group, feature>> \in DOMAIN store
    THEN LET it == store[<<group, feature>>]
         IN  Return([FeatureGroupArn  |-> FeatureGroupArn(group),
                     FeatureGroupName |-> group,
                     FeatureName      |-> feature,
                     FeatureType      |-> it.FeatureType,
                     LastModifiedTime |-> it.LastModifiedTime,
                     Description      |-> it.Description,
                     Parameters       |-> ParameterList(it.Parameters)])
    ELSE Raise(ClientError("ResourceNotFound"))

\* 'AllParameters': 'org customer product team team mlops'
RECURSIVE JoinParameters(_)
JoinParameters(list) ==
    IF list = <<>> THEN <<>>
    ELSE LET first == <<Head(list).Key, " ">> \o Head(list).Value
         IN  IF Len(list) = 1 THEN first
             ELSE first \o <<" ">> \o JoinParameters(Tail(list))

AllParameters(parameters) == JoinParameters(ParameterList(parameters))

\* {'Operator': 'Contains'}: the value occurs in the text.
Contains(text, value) ==
    \E n \in 1..(Len(text) - Len(value) + 1) :
        SubSeq(text, n, n + Len(value) - 1) = value

\* The attribute of a feature that a filter names.
Attribute(store, p, name) ==
    CASE name = "FeatureName"   -> p[2]
      [] name = "Description"   -> store[p].Description
      [] name = "AllParameters" -> AllParameters(store[p].Parameters)

\* One entry of response['Results'].
FeatureMetadata(store, p) ==
    LET fields == {"FeatureGroupArn", "FeatureGroupName", "FeatureName", "FeatureType",
                   "LastModifiedTime", "Parameters", "AllParameters"}
                  \cup (IF store[p].Description = NoDescription THEN {}
                                                                ELSE {"Description"})
    IN  [f \in fields |->
            CASE f = "FeatureGroupArn"  -> FeatureGroupArn(p[1])
              [] f = "FeatureGroupName" -> p[1]
              [] f = "FeatureName"      -> p[2]
              [] f = "FeatureType"      -> store[p].FeatureType
              [] f = "LastModifiedTime" -> store[p].LastModifiedTime
              [] f = "Description"      -> store[p].Description
              [] f = "Parameters"       -> ParameterList(store[p].Parameters)
              [] f = "AllParameters"    -> AllParameters(store[p].Parameters)]

\* The members of a set, one after the other.
RECURSIVE Listed(_)
Listed(set) ==
    IF set = {} THEN <<>>
    ELSE LET one == CHOOSE x \in set : TRUE
         IN  <<one>> \o Listed(set \ {one})

\* sagemaker_client.search(Resource="FeatureMetadata", SearchExpression={...}):
\* the features that the filters select, in the order of the service.  The
\* catalogues here fit in one page of results.
search(store, expression) ==
    LET hit(p) ==
            IF expression.Operator = "Or"
            THEN \E f \in Range(expression.Filters) :
                    Contains(Attribute(store, p, f.Name), f.Value)
            ELSE \A f \in Range(expression.Filters) :
                    Contains(Attribute(store, p, f.Name), f.Value)
        hits   == Listed({p \in DOMAIN store : hit(p)})
    IN  [Results |-> [n \in 1..Len(hits) |->
                        [FeatureMetadata |-> FeatureMetadata(store, hits[n])]]]

\* A missing value of a data frame.
NaN == <<"NaN">>

\* pd.json_normalize(data, max_level=1): one row per entry, one column
\* "outer.inner" per attribute that some entry has; a column is the pair of
\* its two parts.
json_normalize(data) ==
    LET columns == UNION {UNION {{<<t, f>> : f \in DOMAIN r[t]} : t \in DOMAIN r} :
                            r \in Range(data)}
    IN  [columns |-> columns,
         rows    |-> [n \in 1..Len(data) |->
                        [c \in columns |->
                            IF c[2] \in DOMAIN data[n][c[1]] THEN data[n][c[1]][c[2]]
                                                             ELSE NaN]]]

\* df.columns = df.columns.map(lambda col: col.split(".")[1])
RenameColumns(frame) ==
    LET columns == {c[2] : c \in frame.columns}
    IN  [columns |-> columns,
         rows    |-> [n \in 1..Len(frame.rows) |->
                        [c \in columns |->
                            frame.rows[n][CHOOSE d \in frame.columns : d[2] = c]]]]

\* df.drop(label, axis=1): a label that is no column is a KeyError.
drop(frame, label) ==
    IF label \in frame.columns
    THEN Return([columns |-> frame.columns \ {label},
                 rows    |-> [n \in 1..Len(frame.rows) |->
                                [c \in frame.columns \ {label} |-> frame.rows[n][c]]]])
    ELSE Raise([cls |-> "KeyError", code |-> label])

\* The SearchExpression of search_features_using_string.
SearchExpression(string) ==
    [Filters  |-> << [Name |-> "FeatureName",   Operator |-> "Contains", Value |-> string],
                     [Name |-> "Description",   Operator |-> "Contains", Value |-> string],
                     [Name |-> "AllParameters", Operator |-> "Contains", Value |-> string] >>,
     Operator |-> "Or"]

\* def search_features_using_string(search_string)
search_features_using_string(store, string) ==
    LET found == search(store, SearchExpression(string))
        frame == RenameColumns(json_normalize(found.Results))
    IN  drop(frame, "FeatureGroupArn")

\* The strings searched for: the notebook's "married" and others.
SearchStrings ==
    { <<"married">>, <<"team">>, <<"mlops">>, <<"customer">>, <<"boolean", " ", "value">>,
      <<"is", "_", "married">>, <<"purchases">> }

InitFeatures ==
    /\ pc = "StoreRead"
    /\ FreshNotebooks
    /\ NoRequest
    /\ NoPipeline
    /\ catalog \in Catalogs
    /\ customers_feature_group_name = ""
    /\ described = <<>>
    /\ search_string = <<>>
    /\ search_df = NoObject

\* %store -r customers_feature_group_name
StoreRead ==
    /\ pc = "StoreRead"
    /\ customers_feature_group_name' = customers_group
    /\ pc' = "DescribeFeatureGroup"
    /\ UNCHANGED <<raised, s3, async, batch, lab3, catalog, described, search_string,
                   search_df>>

\* sagemaker_client.describe_feature_group(FeatureGroupName=customers_feature_group_name)
DescribeFeatureGroup ==
    /\ pc = "DescribeFeatureGroup"
    /\ LET r == describe_feature_group(catalog, customers_feature_group_name)
       IN  IF r.ok THEN pc' = "UpdateDescription" /\ UNCHANGED raised
                   ELSE Abort(r.exc)
    /\ UNCHANGED <<s3, async, batch, lab3, fstore>>

\* update_feature_metadata(..., FeatureName="is_married", Description=...)
UpdateDescription ==
    /\ pc = "UpdateDescription"
    /\ LET r == update_feature_metadata(catalog, customers_feature_group_name, is_married,
                                        married_description, <<>>)
       IN  IF r.ok THEN catalog' = r.value /\ pc' = "DescribeDescription" /\ UNCHANGED raised
                   ELSE Abort(r.exc) /\ UNCHANGED catalog
    /\ UNCHANGED <<s3, async, batch, lab3, customers_feature_group_name, described,
                   search_string, search_df>>

\* describe_feature_metadata(..., FeatureName="is_married"), after the description
DescribeDescription ==
    /\ pc = "DescribeDescription"
    /\ LET r == describe_feature_metadata(catalog, customers_feature_group_name, is_married)
       IN  IF r.ok THEN described' = Append(described, r.value) /\ pc' = "UpdateParameters"
                        /\ UNCHANGED raised
                   ELSE Abort(r.exc) /\ UNCHANGED described
    /\ UNCHANGED <<s3, async, batch, lab3, catalog, customers_feature_group_name,
                   search_string, search_df>>

\* update_feature_metadata(..., FeatureName="is_married", ParameterAdditions=[...])
UpdateParameters ==
    /\ pc = "UpdateParameters"
    /\ LET r == update_feature_metadata(catalog, customers_feature_group_name, is_married,
                                        NotGiven, parameter_additions)
       IN  IF r.ok THEN catalog' = r.value /\ pc' = "DescribeParameters" /\ UNCHANGED raised
                   ELSE Abort(r.exc) /\ UNCHANGED catalog
    /\ UNCHANGED <<s3, async, batch, lab3, customers_feature_group_name, described,
                   search_string, search_df>>

\* describe_feature_metadata(..., FeatureName="is_married"), after the parameters
DescribeParameters ==
    /\ pc = "DescribeParameters"
    /\ LET r == describe_feature_metadata(catalog, customers_feature_group_name, is_married)
       IN  IF r.ok THEN described' = Append(described, r.value) /\ pc' = "SearchFeatures"
                        /\ UNCHANGED raised
                   ELSE Abort(r.exc) /\ UNCHANGED described
    /\ UNCHANGED <<s3, async, batch, lab3, catalog, customers_feature_group_name,
                   search_string, search_df>>

\* search_string="married" ; search_features_using_string(search_string),
\* and the function called with other strings.
SearchFeatures ==
    /\ pc = "SearchFeatures"
    /\ \E string \in SearchStrings :
        /\ search_string' = string
        /\ LET r == search_features_using_string(catalog, string)
           IN  IF r.ok THEN search_df' = r.value /\ pc' = "Searched" /\ UNCHANGED raised
                       ELSE Abort(r.exc) /\ UNCHANGED search_df
    /\ UNCHANGED <<s3, async, batch, lab3, catalog, customers_feature_group_name, described>>

NextFeatures ==
    \/ StoreRead
    \/ DescribeFeatureGroup
    \/ UpdateDescription
    \/ DescribeDescription
    \/ UpdateParameters
    \/ DescribeParameters
    \/ SearchFeatures

SpecFeatures == InitFeatures /\ [][NextFeatures]_vars

----------------------------------------------------------------------------
(* Feature store notebook: properties *)

\* The parameter a describe_feature_metadata response lists for a pair.
Listing(addition) == [Key |-> addition.Key, Value |-> addition.Value]

Matching(store, string) ==
    {p \in DOMAIN store :
        \/ Contains(p[2], string)
        \/ Contains(store[p].Description, string)
        \/ Contains(AllParameters(store[p].Parameters), string)}

\* The features a returned table has a row for.
Returned(frame) ==
    {<<frame.rows[n]["FeatureGroupName"], frame.rows[n]["FeatureName"]>> :
        n \in 1..Len(frame.rows)}

\* A call of search_features_using_string that returns a table returns the
\* matching features, without the FeatureGroupArn column.
SearchReturned ==
    pc = "Searched" =>
        /\ Returned(search_df) = Matching(catalog, search_string)
        /\ "FeatureGroupArn" \notin search_df.columns

\* C17: search_features_using_string(s) returns a table; the features in
\* it are exactly those for which the feature name, the description or the
\* parameters contain s, and it has no FeatureGroupArn column.
C17_SearchFeatures ==
    search_string # <<>> =>
        /\ pc = "Searched"
        /\ Returned(search_df) = Matching(catalog, search_string)
        /\ "FeatureGroupArn" \notin search_df.columns

----------------------------------------------------------------------------
(* Properties of the inference script *)

\* The number of cells of the first line of a CSV text.
FirstLineWidth(text) ==
    LET breaks == {n \in 1..Len(text) : text[n] = "\n"}
        last   == IF breaks = {} THEN Len(text)
                  ELSE (CHOOSE n \in breaks : \A m \in breaks : n <= m) - 1
    IN  Cardinality({n \in 1..last : text[n] = ","}) + 1

InputFnReturned == df # NoObject
InputFnRaised == pc = "Aborted" /\ df = NoObject

\* C14: input_fn returns a frame only for the content type text/csv and
\* raises ValueError for every other one; for text/csv with 9 columns the
\* columns are named as the 8 features plus rings, with 8 columns as the 8
\* features.
C14_InputFn ==
    /\ content_type # "text/csv" =>
            /\ ~InputFnReturned
            /\ pc # "input_fn" => InputFnRaised /\ raised.cls = "ValueError"
    /\ InputFnReturned =>
            /\ content_type = "text/csv"
            /\ FirstLineWidth(input_data) = 9 =>
                    df.columns = feature_columns_names \o <<"rings">>
            /\ FirstLineWidth(input_data) = 8 => df.columns = feature_columns_names
            /\ FirstLineWidth(input_data) \in {8, 9}
                    <=> Range(feature_columns_names) \subseteq Range(df.columns)
    /\ (content_type = "text/csv" /\ input_data # <<>> /\ pc # "input_fn") => InputFnReturned

\* input_fn has returned the frame of a labelled payload of two rows.
C14_Witness ==
    /\ pc = "predict_fn"
    /\ FirstLineWidth(input_data) = 9
    /\ Len(df.rows) = 2
    /\ df.columns[9] = "rings"

\* The transformed features of one row of a frame, the label left out.
FeaturesOf(row) ==
    transform(model, [columns |-> feature_columns_names,
                      rows |-> <<SubSeq(row, 1, Len(feature_columns_names))>>]).value[1]

\* C16: predict_fn returns one row per input row; with the rings column each
\* output row is the label of that row, unchanged, followed by the row's
\* transformed features; without it, the transformed features only.
C16_PredictFn ==
    prediction # <<>> =>
        /\ Len(prediction) = Len(df.rows)
        /\ \A k \in 1..Len(df.rows) :
            IF "rings" \in Range(df.columns)
            THEN /\ prediction[k][1] = df.rows[k][9]
                 /\ Tail(prediction[k]) = FeaturesOf(df.rows[k])
                 /\ Len(prediction[k]) = 11
            ELSE /\ prediction[k] = FeaturesOf(df.rows[k])
                 /\ Len(prediction[k]) = 10

\* predict_fn has returned two labelled rows, the first with the label 0.
C16_Witness ==
    /\ pc = "output_fn"
    /\ "rings" \in Range(df.columns)
    /\ Len(prediction) = 2
    /\ prediction[1][1] = 0
    /\ prediction[2][1] = 9

\* What the claim says of the two supported accept values.
OutputFnSupported ==
    response # NoObject =>
        /\ accept \in {"application/json", "text/csv"}
        /\ response.mimetype = accept
        /\ accept = "application/json" =>
                /\ DOMAIN response.body.json = {"instances"}
                /\ Len(response.body.json.instances) = Len(prediction)
                /\ \A k \in 1..Len(prediction) :
                        response.body.json.instances[k] = [features |-> prediction[k]]
        /\ accept = "text/csv" => CsvRows(response.body) = prediction

OutputFnRaised == pc = "Aborted" /\ prediction # <<>>

\* C15: output_fn answers application/json and text/csv with the mimetype
\* asked for ({"instances": [{"features": row}, ...]} or the CSV of the
\* prediction), and for every other accept value raises an exception saying
\* that the accept type is not supported, without a response.
C15_OutputFn ==
    /\ OutputFnSupported
    /\ OutputFnRaised =>
            /\ accept \notin {"application/json", "text/csv"}
            /\ response = NoObject
            /\ raised.msg = accept \o " accept type is not supported by this script."

----------------------------------------------------------------------------
(* Properties of the inference-pipeline notebook *)

Images(containers) == [n \in 1..Len(containers) |-> containers[n].image]

Endpoints == {n \in DOMAIN hosted : hosted[n].kind = "endpoint"}

\* C12: the pipeline model and its one endpoint chain exactly two
\* containers, the Scikit-learn preprocessor and then Linear Learner; a
\* request is processed by the preprocessor first, the preprocessor's answer
\* is Linear Learner's input, and Linear Learner's answer is what
\* predictor.predict returns.
C12_PipelineChain ==
    /\ sm_model # NoObject => Images(sm_model.models) = <<"sklearn", "linear-learner">>
    /\ Endpoints \subseteq {pipeline_endpoint_name}
    /\ \A n \in Endpoints :
            Images(hosted[n].containers) = <<"sklearn", "linear-learner">>
    /\ Len(hops) <= 2
    /\ Len(hops) >= 1 =>
            /\ hops[1].container = "sklearn"
            /\ hops[1].input = [body |-> payload, content_type |-> "text/csv"]
    /\ Len(hops) >= 2 =>
            /\ hops[2].container = "linear-learner"
            /\ hops[1].answer.ok
            /\ hops[2].input = [body |-> hops[1].answer.value.body,
                                content_type |-> hops[1].answer.value.mimetype]
    /\ result # NoObject =>
            /\ Len(hops) = 2
            /\ hops[2].answer.ok
            /\ result = hops[2].answer.value

\* predictor.predict has returned the score Linear Learner gave for the
\* features the preprocessor made of the payload.
C12_Witness ==
    /\ pc = "DeleteModel"
    /\ Len(hops) = 2
    /\ Len(hops[1].answer.value.body.json.instances[1].features) = 10
    /\ Len(result.body.json.predictions) = 1

\* Every call b of the history comes after a call a.
Before(a, b) ==
    \A n \in 1..Len(calls) : calls[n] = b => \E m \in 1..(n - 1) : calls[m] = a

DeleteCalls == {"predictor.delete_model", "sm_client.delete_endpoint", "transformer.delete_model"}

\* C13: the preprocessor is fitted before the batch transform of the
\* training data, the transform job is waited for (and has completed) before
\* its output path is used as Linear Learner's training input, both models
\* are fitted before the pipeline model is deployed, the endpoint is invoked
\* only after deploy has returned, and the delete calls come only after the
\* invocation has returned; no call is made twice.
C13_LinearSequence ==
    /\ \A m, n \in 1..Len(calls) : calls[m] = calls[n] => m = n
    /\ Before("sklearn_preprocessor.fit", "transformer.transform")
    /\ transformer # NoObject => sklearn_preprocessor.fitted
    /\ Before("transformer.transform", "transformer.wait")
    /\ Before("transformer.wait", "ll_estimator.fit")
    /\ preprocessed_train # None =>
            /\ transformer.status = "Completed"
            /\ preprocessed_train = transformer.output_path
    /\ (ll_estimator # NoObject /\ ll_estimator.fitted) =>
            ll_estimator.train = transformer.output_path
    /\ Before("sklearn_preprocessor.fit", "sm_model.deploy")
    /\ Before("ll_estimator.fit", "sm_model.deploy")
    /\ sm_model # NoObject => sklearn_preprocessor.fitted /\ ll_estimator.fitted
    /\ Before("sm_model.deploy", "predictor.predict")
    /\ pc = "PredictWait" =>
            /\ pipeline_endpoint_name \in DOMAIN hosted
            /\ hosted[pipeline_endpoint_name].status = "InService"
    /\ \A d \in DeleteCalls : Before("predictor.predict", d)
    /\ (\E n \in 1..Len(calls) : calls[n] \in DeleteCalls) => result # NoObject

\* The notebook has run to its end.
C13_Witness ==
    /\ pc = "PipelineDone"
    /\ Len(calls) = 10
    /\ calls[10] = "transformer.delete_model"
    /\ hosted = <<>>

====
